---- MODULE Spec2Model ----
(***************************************************************************)
(* LedgerPro: the double-entry ledger core (Account, Transaction,          *)
(* JournalEntry), the manual posting path (TransactionSerializer.create),  *)
(* invoice-to-GL posting (InvoiceSerializer) and pay-run-to-GL posting     *)
(* (payroll_service.process_pay_run), over the persistent store.           *)
(*                                                                         *)
(* Money is counted in whole cents (DecimalField(decimal_places=2)), dates *)
(* are day numbers.  Every request is handled synchronously, so one action *)
(* is one whole request handler; what it leaves in the store after an      *)
(* exception is what the handler had written and not undone.               *)
(***************************************************************************)
EXTENDS Integers, Sequences, FiniteSets, TLC

VARIABLES
    accounts,          \* Account rows, by primary key
    transactions,      \* Transaction rows, by primary key
    journal_entries,   \* JournalEntry rows, by primary key
    invoices,          \* Invoice rows (with their InvoiceItem rows), by primary key
    pay_runs,          \* PayRun rows, by primary key
    payslips,          \* Payslip rows, by primary key
    payslip_deductions,\* PayslipDeduction rows, by primary key
    threads,           \* the calls of the account resolver in progress, by caller
    staged_bank_transactions, \* StagedBankTransaction rows, by primary key
    reconciliation_rules,     \* ReconciliationRule rows, by primary key
    request,           \* the request being served, NoRequest between requests
    response           \* what the handler returned or raised

payroll == <<pay_runs, payslips, payslip_deductions>>
reconciliation == <<staged_bank_transactions, reconciliation_rules>>
vars == <<accounts, transactions, journal_entries, invoices, pay_runs, payslips,
          payslip_deductions, threads, staged_bank_transactions, reconciliation_rules,
          request, response>>

----------------------------------------------------------------------------
(* Bounds of the model *)

MaxAmount == 1
MaxLines == 2
MaxTxn == 2
MaxDate == 2
MaxItems == 1
MaxQuantity == 2
MaxInvoices == 1
MaxRows == 2
MaxHours == 2
MaxDeductions == 1
MaxCallers == 2
MaxRules == 2
MaxConditions == 2
DaysPerYear == 2

Dates == 1..MaxDate
Amounts == (0 - 1)..MaxAmount

(* request.user.membership_set.first().organization: the requests come    *)
(* from the users of one tenant; the other tenant owns rows of its own.   *)
UserOrganization == "org1"

NoRequest == [op |-> "none"]
NoResponse == [outcome |-> "none"]
None == 0

----------------------------------------------------------------------------
(* Account *)

ASSET == "ASSET"
LIABILITY == "LIABILITY"
EQUITY == "EQUITY"
REVENUE == "REVENUE"
EXPENSE == "EXPENSE"
ACCOUNT_TYPE_CHOICES == {ASSET, LIABILITY, EQUITY, REVENUE, EXPENSE}

(* A primary key not yet used in table t (uuid4 in the code: any fresh key). *)
NewId(t) == CHOOSE n \in 1..(Cardinality(DOMAIN t) + 1) :
                 n \notin DOMAIN t /\ \A m \in 1..(n - 1) : m \in DOMAIN t

Insert(t, id, row) == [k \in DOMAIN t \cup {id} |-> IF k = id THEN row ELSE t[k]]

----------------------------------------------------------------------------
(* JournalEntry *)

(* JournalEntry.clean without its last test: a line of 0/0 is let through. *)
JournalEntryCleanAllowsZero(debit_amount, credit_amount) ==
    /\ ~(debit_amount < 0 \/ credit_amount < 0)
    /\ ~(debit_amount > 0 /\ credit_amount > 0)

(* JournalEntry.clean: TRUE when no ValidationError is raised. *)
JournalEntryClean(debit_amount, credit_amount) ==
    /\ ~(debit_amount < 0 \/ credit_amount < 0)
    /\ ~(debit_amount > 0 /\ credit_amount > 0)
    /\ ~(debit_amount = 0 /\ credit_amount = 0)

(* Transaction.delete: journal entries are owned, on_delete=CASCADE. *)
TransactionDelete(jes, tid) ==
    [k \in {j \in DOMAIN jes : jes[j].transaction # tid} |-> jes[k]]

RECURSIVE SumDebit(_, _)
SumDebit(jes, ids) ==
    IF ids = {} THEN 0
    ELSE LET k == CHOOSE j \in ids : TRUE
         IN jes[k].debit_amount + SumDebit(jes, ids \ {k})

RECURSIVE SumCredit(_, _)
SumCredit(jes, ids) ==
    IF ids = {} THEN 0
    ELSE LET k == CHOOSE j \in ids : TRUE
         IN jes[k].credit_amount + SumCredit(jes, ids \ {k})

EntriesOf(jes, tid) == {j \in DOMAIN jes : jes[j].transaction = tid}

(* get_balance with transaction__date__lt in place of transaction__date__lte. *)
get_balance_lt(account, date_to) ==
    LET entries == {j \in DOMAIN journal_entries :
                       /\ journal_entries[j].account = account
                       /\ (date_to # None =>
                              transactions[journal_entries[j].transaction].date < date_to)}
        debit_sum == SumDebit(journal_entries, entries)
        credit_sum == SumCredit(journal_entries, entries)
    IN IF accounts[account].type \in {ASSET, EXPENSE}
       THEN debit_sum - credit_sum
       ELSE credit_sum - debit_sum

(* Account.get_balance; date_to = None when the argument is omitted. *)
get_balance(account, date_to) ==
    LET entries == {j \in DOMAIN journal_entries :
                       /\ journal_entries[j].account = account
                       /\ (date_to # None =>
                              transactions[journal_entries[j].transaction].date <= date_to)}
        debit_sum == SumDebit(journal_entries, entries)
        credit_sum == SumCredit(journal_entries, entries)
    IN IF accounts[account].type \in {ASSET, EXPENSE}
       THEN debit_sum - credit_sum
       ELSE credit_sum - debit_sum

(* Account.get_period_activity *)
get_period_activity(account, date_from, date_to) ==
    LET entries == {j \in DOMAIN journal_entries :
                       /\ journal_entries[j].account = account
                       /\ transactions[journal_entries[j].transaction].date >= date_from
                       /\ transactions[journal_entries[j].transaction].date <= date_to}
        debits_in_period == SumDebit(journal_entries, entries)
        credits_in_period == SumCredit(journal_entries, entries)
        type == accounts[account].type
    IN IF type = REVENUE THEN credits_in_period - debits_in_period
       ELSE IF type = EXPENSE THEN debits_in_period - credits_in_period
       ELSE IF type = ASSET THEN debits_in_period - credits_in_period
       ELSE IF type \in {LIABILITY, EQUITY} THEN credits_in_period - debits_in_period
       ELSE 0

(* A balance query: reads the ledger, writes nothing. *)
GetBalance ==
    /\ request = NoRequest
    /\ \E account \in DOMAIN accounts, date_to \in {None} \cup Dates :
           /\ request' = [op |-> "getBalance", account |-> account, date_to |-> date_to]
           /\ response' = [outcome |-> "balance", value |-> get_balance(account, date_to)]
    /\ UNCHANGED <<accounts, transactions, journal_entries, invoices, payroll, threads,
                   reconciliation>>

GetPeriodActivity ==
    /\ request = NoRequest
    /\ \E account \in DOMAIN accounts, date_from \in Dates, date_to \in Dates :
           /\ request' = [op |-> "getPeriodActivity", account |-> account,
                          date_from |-> date_from, date_to |-> date_to]
           /\ response' = [outcome |-> "activity",
                           value |-> get_period_activity(account, date_from, date_to)]
    /\ UNCHANGED <<accounts, transactions, journal_entries, invoices, payroll, threads,
                   reconciliation>>

----------------------------------------------------------------------------
(* TransactionSerializer.create *)

RECURSIVE SumLines(_, _, _)
SumLines(lines, field, i) ==
    IF i > Len(lines) THEN 0 ELSE lines[i][field] + SumLines(lines, field, i + 1)

(* The loop over journal_entries_data.  "outcome" is how the loop ends:   *)
(* "done", "serializers.ValidationError" (the organization check) or      *)
(* "django.ValidationError" (raised by JournalEntry.save -> clean).       *)
RECURSIVE CreateEntries(_, _, _, _, _)
CreateEntries(lines, i, tid, organization, jes) ==
    IF i > Len(lines) THEN [outcome |-> "done", jes |-> jes]
    ELSE LET entry_data == lines[i] IN
         IF accounts[entry_data.account].organization # organization
         THEN [outcome |-> "serializers.ValidationError", jes |-> jes]
         ELSE IF ~JournalEntryClean(entry_data.debit_amount, entry_data.credit_amount)
         THEN [outcome |-> "django.ValidationError", jes |-> jes]
         ELSE CreateEntries(lines, i + 1, tid, organization,
                  Insert(jes, NewId(jes),
                         [transaction |-> tid, account |-> entry_data.account,
                          debit_amount |-> entry_data.debit_amount,
                          credit_amount |-> entry_data.credit_amount]))

(* An except clause that catches nothing: transaction.delete() never runs. *)
CreateCatchesNothing(outcome) == FALSE

(* What the except clause of create catches: serializers.ValidationError. *)
CreateCatches(outcome) == outcome = "serializers.ValidationError"

TransactionSerializerCreate(date, lines) ==
    LET organization == UserOrganization
        tid == NewId(transactions)
        created == Insert(transactions, tid,
                       [organization |-> organization, date |-> date,
                        description |-> [kind |-> "manual", ref |-> None]])
        loop == CreateEntries(lines, 1, tid, organization, journal_entries)
        unbalanced == SumLines(lines, "debit_amount", 1) # SumLines(lines, "credit_amount", 1)
        outcome == IF loop.outcome = "done" /\ unbalanced
                   THEN "serializers.ValidationError"
                   ELSE loop.outcome
    IN /\ request' = [op |-> "postTransaction", date |-> date, lines |-> lines]
       /\ IF CreateCatches(outcome)
          THEN /\ transactions' = [k \in DOMAIN created \ {tid} |-> created[k]]
               /\ journal_entries' = TransactionDelete(loop.jes, tid)
               /\ response' = [outcome |-> outcome,
                               detail |-> IF loop.outcome = "done"
                                          THEN "Debits must equal Credits."
                                          ELSE "Account invalid for org.",
                               id |-> None]
          ELSE /\ transactions' = created
               /\ journal_entries' = loop.jes
               /\ response' = IF outcome = "done"
                              THEN [outcome |-> "created", detail |-> "", id |-> tid]
                              ELSE [outcome |-> outcome, detail |-> "journal entry", id |-> None]
       /\ UNCHANGED <<accounts, invoices, payroll>>

Line == [account : DOMAIN accounts, debit_amount : Amounts, credit_amount : Amounts]

(* validate_journal_entries_set: at least two journal entries. *)
LineLists == UNION {[1..n -> Line] : n \in 2..MaxLines}

PostTransaction ==
    /\ request = NoRequest
    /\ UNCHANGED <<threads, reconciliation>>
    /\ Cardinality(DOMAIN transactions) < MaxTxn
    /\ \E date \in Dates, lines \in LineLists :
           TransactionSerializerCreate(date, lines)

----------------------------------------------------------------------------
(* account_utils.get_or_create_default_account *)

(* name__icontains on the account names that occur: the pairs <<name, s>>  *)
(* where s is a case-insensitive substring of name.                        *)
NameIContains ==
    {<<"Accounts Receivable (Default)", "Accounts Receivable">>,
     <<"Trade accounts receivable", "Accounts Receivable">>,
     <<"Accounts Receivable - Other", "Accounts Receivable">>,
     <<"Sales Revenue (Default)", "Sales Revenue">>,
     <<"Sales Tax Payable (Default)", "Sales Tax Payable">>,
     <<"Payroll Expenses (Default)", "Payroll Expense">>,
     <<"Wages Payable (Default)", "Wages Payable">>,
     <<"Deductions Payable (Default)", "Deductions Payable">>}

(* QuerySet.first(): the row with the least primary key. *)
First(ids) == CHOOSE a \in ids : \A b \in ids : a <= b

(* Returns the account's key, the Account table after the call and        *)
(* whether Account.objects.create raised IntegrityError (unique_together). *)
get_or_create_default_account(accts, organization, account_type, account_name_substring, default_name) ==
    LET exact == {a \in DOMAIN accts :
                     /\ accts[a].organization = organization
                     /\ accts[a].type = account_type
                     /\ accts[a].name = default_name
                     /\ accts[a].is_active}
        bysub == {a \in DOMAIN accts :
                     /\ accts[a].organization = organization
                     /\ accts[a].type = account_type
                     /\ <<accts[a].name, account_name_substring>> \in NameIContains
                     /\ accts[a].is_active}
        taken == \E a \in DOMAIN accts :
                     /\ accts[a].organization = organization
                     /\ accts[a].name = default_name
                     /\ accts[a].type = account_type
        id == NewId(accts)
    IN IF exact # {} THEN [account |-> First(exact), accounts |-> accts, raised |-> FALSE]
       ELSE IF bysub # {} THEN [account |-> First(bysub), accounts |-> accts, raised |-> FALSE]
       ELSE IF taken THEN [account |-> None, accounts |-> accts, raised |-> TRUE]
       ELSE [account |-> id,
             accounts |-> Insert(accts, id, [organization |-> organization, name |-> default_name,
                                             type |-> account_type, is_active |-> TRUE]),
             raised |-> FALSE]

(* get_or_create_default_account as its queries and its INSERT reach the   *)
(* database one at a time: between two of them another caller may run.     *)
Callers == 1..MaxCallers

Idle == [pc |-> "idle"]

ResolverArgs ==
    {[organization |-> "org1", account_type |-> ASSET,
      account_name_substring |-> "Accounts Receivable",
      default_name |-> "Accounts Receivable (Default)"],
     [organization |-> "org1", account_type |-> REVENUE,
      account_name_substring |-> "Sales Revenue",
      default_name |-> "Sales Revenue (Default)"]}

(* Account.objects.filter(organization, type, name=default_name, is_active=True) *)
ExactMatches(accts, args) ==
    {a \in DOMAIN accts :
        /\ accts[a].organization = args.organization
        /\ accts[a].type = args.account_type
        /\ accts[a].name = args.default_name
        /\ accts[a].is_active}

(* Account.objects.filter(organization, type, name__icontains=..., is_active=True) *)
SubstringMatches(accts, args) ==
    {a \in DOMAIN accts :
        /\ accts[a].organization = args.organization
        /\ accts[a].type = args.account_type
        /\ <<accts[a].name, args.account_name_substring>> \in NameIContains
        /\ accts[a].is_active}

(* unique_together = ('organization', 'name', 'type'): the rows an INSERT  *)
(* of the default account collides with.                                   *)
SameKey(accts, args) ==
    {a \in DOMAIN accts :
        /\ accts[a].organization = args.organization
        /\ accts[a].name = args.default_name
        /\ accts[a].type = args.account_type}

Returned(thread, account, created) ==
    [thread EXCEPT !.pc = "done", !.account = account, !.created = created]

ResolverCall(caller) ==
    /\ threads[caller].pc = "idle"
    /\ \E args \in ResolverArgs :
           threads' = [threads EXCEPT ![caller] =
                          [pc |-> "get_exact", args |-> args, account |-> None,
                           raised |-> "", created |-> FALSE,
                           first_time |-> /\ ExactMatches(accounts, args) = {}
                                          /\ SubstringMatches(accounts, args) = {}
                                          /\ SameKey(accounts, args) = {}]]
    /\ UNCHANGED <<accounts, transactions, journal_entries, invoices, payroll,
                   reconciliation, request, response>>

(* Account.objects.get(..., name=default_name, is_active=True) *)
ResolverGetExact(caller) ==
    /\ threads[caller].pc = "get_exact"
    /\ LET found == ExactMatches(accounts, threads[caller].args)
       IN threads' = [threads EXCEPT ![caller] =
                         IF found # {} THEN Returned(@, First(found), FALSE)
                         ELSE [@ EXCEPT !.pc = "get_substring"]]
    /\ UNCHANGED <<accounts, transactions, journal_entries, invoices, payroll,
                   reconciliation, request, response>>

(* Account.objects.get(..., name__icontains=account_name_substring, is_active=True) *)
ResolverGetSubstring(caller) ==
    /\ threads[caller].pc = "get_substring"
    /\ LET found == SubstringMatches(accounts, threads[caller].args)
       IN threads' = [threads EXCEPT ![caller] =
                         IF found # {} THEN Returned(@, First(found), FALSE)
                         ELSE [@ EXCEPT !.pc = "create"]]
    /\ UNCHANGED <<accounts, transactions, journal_entries, invoices, payroll,
                   reconciliation, request, response>>

(* Account.objects.create(organization, name=default_name, type): the      *)
(* IntegrityError of the unique constraint is not caught.                  *)
ResolverCreate(caller) ==
    /\ threads[caller].pc = "create"
    /\ LET args == threads[caller].args
           id == NewId(accounts)
       IN IF SameKey(accounts, args) # {}
          THEN /\ threads' = [threads EXCEPT ![caller] =
                                 [@ EXCEPT !.pc = "done", !.raised = "IntegrityError"]]
               /\ accounts' = accounts
          ELSE /\ threads' = [threads EXCEPT ![caller] = Returned(@, id, TRUE)]
               /\ accounts' = Insert(accounts, id,
                                  [organization |-> args.organization, name |-> args.default_name,
                                   type |-> args.account_type, is_active |-> TRUE])
    /\ UNCHANGED <<transactions, journal_entries, invoices, payroll, reconciliation,
                   request, response>>

Resolver ==
    \E caller \in Callers :
        \/ ResolverCall(caller)
        \/ ResolverGetExact(caller)
        \/ ResolverGetSubstring(caller)
        \/ ResolverCreate(caller)

----------------------------------------------------------------------------
(* Invoice, InvoiceItem, InvoiceSerializer *)

DRAFT == "DRAFT"
SENT == "SENT"
PAID == "PAID"
VOID == "VOID"
STATUS_CHOICES == {DRAFT, SENT, PAID, VOID}

(* InvoiceItem.save: amount = quantity * unit_price. *)
InvoiceItemSave(item_data) ==
    [quantity |-> item_data.quantity, unit_price |-> item_data.unit_price,
     amount |-> item_data.quantity * item_data.unit_price,
     tax_amount |-> item_data.tax_amount]

RECURSIVE SumAmount(_, _)
SumAmount(items, i) ==
    IF i > Len(items) THEN 0
    ELSE items[i].quantity * items[i].unit_price + SumAmount(items, i + 1)

RECURSIVE SumAmountStored(_, _)
SumAmountStored(items, i) ==
    IF i > Len(items) THEN 0 ELSE items[i].amount + SumAmountStored(items, i + 1)

RECURSIVE SumTax(_, _)
SumTax(items, i) ==
    IF i > Len(items) THEN 0 ELSE items[i].tax_amount + SumTax(items, i + 1)

(* The store as a posting pipeline threads it. *)
Store(accts, txns, jes) == [accounts |-> accts, transactions |-> txns, journal_entries |-> jes]

CreateEntry(jes, tid, account, debit_amount, credit_amount) ==
    Insert(jes, NewId(jes), [transaction |-> tid, account |-> account,
                             debit_amount |-> debit_amount, credit_amount |-> credit_amount])

(* _create_invoice_gl_transaction dating the Transaction on the day of     *)
(* posting instead of invoice.issue_date.                                  *)
create_invoice_gl_transaction_dated_today(invoice, iid, st) ==
    LET organization == invoice.organization
        ar == get_or_create_default_account(st.accounts, organization, ASSET,
                  "Accounts Receivable", "Accounts Receivable (Default)")
        rev == get_or_create_default_account(ar.accounts, organization, REVENUE,
                  "Sales Revenue", "Sales Revenue (Default)")
        tax == IF invoice.total_tax > 0
               THEN get_or_create_default_account(rev.accounts, organization, LIABILITY,
                        "Sales Tax Payable", "Sales Tax Payable (Default)")
               ELSE [account |-> None, accounts |-> rev.accounts, raised |-> FALSE]
        tid == NewId(st.transactions)
        txns == Insert(st.transactions, tid,
                    [organization |-> organization, date |-> MaxDate,
                     description |-> [kind |-> "invoice", ref |-> iid]])
        je1 == CreateEntry(st.journal_entries, tid, ar.account, invoice.total_amount, 0)
        je2 == CreateEntry(je1, tid, rev.account, 0, invoice.subtotal)
        je3 == IF tax.account # None /\ invoice.total_tax > 0
               THEN CreateEntry(je2, tid, tax.account, 0, invoice.total_tax)
               ELSE je2
        current_debits == SumDebit(je3, EntriesOf(je3, tid))
        current_credits == SumCredit(je3, EntriesOf(je3, tid))
    IN IF ar.raised
       THEN [store |-> st, outcome |-> "IntegrityError", transaction |-> None]
       ELSE IF rev.raised
       THEN [store |-> Store(ar.accounts, st.transactions, st.journal_entries),
             outcome |-> "IntegrityError", transaction |-> None]
       ELSE IF tax.raised
       THEN [store |-> Store(rev.accounts, st.transactions, st.journal_entries),
             outcome |-> "IntegrityError", transaction |-> None]
       ELSE IF ~JournalEntryClean(invoice.total_amount, 0)
       THEN [store |-> Store(tax.accounts, txns, st.journal_entries),
             outcome |-> "django.ValidationError", transaction |-> None]
       ELSE IF ~JournalEntryClean(0, invoice.subtotal)
       THEN [store |-> Store(tax.accounts, txns, je1),
             outcome |-> "django.ValidationError", transaction |-> None]
       ELSE IF current_debits # current_credits
       THEN [store |-> Store(tax.accounts,
                             [k \in DOMAIN txns \ {tid} |-> txns[k]],
                             TransactionDelete(je3, tid)),
             outcome |-> "serializers.ValidationError", transaction |-> None]
       ELSE [store |-> Store(tax.accounts, txns, je3), outcome |-> "ok", transaction |-> tid]

(* InvoiceSerializer._create_invoice_gl_transaction.  Returns the store as *)
(* the call leaves it, how it ended ("ok" or the exception raised) and the *)
(* Transaction it returns.                                                 *)
create_invoice_gl_transaction(invoice, iid, st) ==
    LET organization == invoice.organization
        ar == get_or_create_default_account(st.accounts, organization, ASSET,
                  "Accounts Receivable", "Accounts Receivable (Default)")
        rev == get_or_create_default_account(ar.accounts, organization, REVENUE,
                  "Sales Revenue", "Sales Revenue (Default)")
        tax == IF invoice.total_tax > 0
               THEN get_or_create_default_account(rev.accounts, organization, LIABILITY,
                        "Sales Tax Payable", "Sales Tax Payable (Default)")
               ELSE [account |-> None, accounts |-> rev.accounts, raised |-> FALSE]
        tid == NewId(st.transactions)
        txns == Insert(st.transactions, tid,
                    [organization |-> organization, date |-> invoice.issue_date,
                     description |-> [kind |-> "invoice", ref |-> iid]])
        je1 == CreateEntry(st.journal_entries, tid, ar.account, invoice.total_amount, 0)
        je2 == CreateEntry(je1, tid, rev.account, 0, invoice.subtotal)
        je3 == IF tax.account # None /\ invoice.total_tax > 0
               THEN CreateEntry(je2, tid, tax.account, 0, invoice.total_tax)
               ELSE je2
        current_debits == SumDebit(je3, EntriesOf(je3, tid))
        current_credits == SumCredit(je3, EntriesOf(je3, tid))
    IN IF ar.raised
       THEN [store |-> st, outcome |-> "IntegrityError", transaction |-> None]
       ELSE IF rev.raised
       THEN [store |-> Store(ar.accounts, st.transactions, st.journal_entries),
             outcome |-> "IntegrityError", transaction |-> None]
       ELSE IF tax.raised
       THEN [store |-> Store(rev.accounts, st.transactions, st.journal_entries),
             outcome |-> "IntegrityError", transaction |-> None]
       ELSE IF ~JournalEntryClean(invoice.total_amount, 0)
       THEN [store |-> Store(tax.accounts, txns, st.journal_entries),
             outcome |-> "django.ValidationError", transaction |-> None]
       ELSE IF ~JournalEntryClean(0, invoice.subtotal)
       THEN [store |-> Store(tax.accounts, txns, je1),
             outcome |-> "django.ValidationError", transaction |-> None]
       ELSE IF current_debits # current_credits
       THEN [store |-> Store(tax.accounts,
                             [k \in DOMAIN txns \ {tid} |-> txns[k]],
                             TransactionDelete(je3, tid)),
             outcome |-> "serializers.ValidationError", transaction |-> None]
       ELSE [store |-> Store(tax.accounts, txns, je3), outcome |-> "ok", transaction |-> tid]

ItemData == [quantity : 1..MaxQuantity, unit_price : Amounts, tax_amount : Amounts]

ItemLists == UNION {[1..n -> ItemData] : n \in 0..MaxItems}

SaveItems(items_data) == [i \in 1..Len(items_data) |-> InvoiceItemSave(items_data[i])]

(* Invoice.id, default=uuid.uuid4: a key no row holds and none refers to.   *)
NewInvoiceId ==
    CHOOSE n \in 1..(Cardinality(DOMAIN invoices) + Cardinality(DOMAIN transactions) + 1) :
        LET unused(m) == /\ m \notin DOMAIN invoices
                         /\ \A t \in DOMAIN transactions :
                                transactions[t].description # [kind |-> "invoice", ref |-> m]
        IN unused(n) /\ \A m \in 1..(n - 1) : ~unused(m)

(* InvoiceSerializer.create *)
InvoiceSerializerCreate(status, issue_date, items_data) ==
    LET organization == UserOrganization
        subtotal == SumAmount(items_data, 1)
        total_tax == SumTax(items_data, 1)
        iid == NewInvoiceId
        invoice == [organization |-> organization, status |-> status,
                    issue_date |-> issue_date, items |-> SaveItems(items_data),
                    subtotal |-> subtotal, total_tax |-> total_tax,
                    total_amount |-> subtotal + total_tax, transaction |-> None]
        st == Store(accounts, transactions, journal_entries)
        gl == create_invoice_gl_transaction(invoice, iid, st)
    IN /\ request' = [op |-> "createInvoice", invoice |-> iid, status |-> status]
       /\ UNCHANGED payroll
       /\ IF status # SENT
          THEN /\ invoices' = Insert(invoices, iid, invoice)
               /\ UNCHANGED <<accounts, transactions, journal_entries>>
               /\ response' = [outcome |-> "created", detail |-> "", id |-> iid]
          ELSE /\ accounts' = gl.store.accounts
               /\ transactions' = gl.store.transactions
               /\ journal_entries' = gl.store.journal_entries
               /\ IF gl.outcome = "ok"
                  THEN /\ invoices' = Insert(invoices, iid, [invoice EXCEPT !.transaction = gl.transaction])
                       /\ response' = [outcome |-> "created", detail |-> "", id |-> iid]
                  ELSE /\ invoices' = invoices
                       /\ response' = [outcome |-> "serializers.ValidationError",
                                       detail |-> gl.outcome, id |-> None]

CreateInvoice ==
    /\ request = NoRequest
    /\ UNCHANGED <<threads, reconciliation>>
    /\ Cardinality(DOMAIN invoices) < MaxInvoices
    /\ \E status \in STATUS_CHOICES, issue_date \in Dates, items_data \in ItemLists :
           /\ status = SENT => Cardinality(DOMAIN transactions) < MaxTxn
           /\ InvoiceSerializerCreate(status, issue_date, items_data)

(* Invoice.calculate_totals, from the stored items. *)
calculate_totals(invoice) ==
    LET subtotal == SumAmountStored(invoice.items, 1)
        total_tax == SumTax(invoice.items, 1)
    IN [invoice EXCEPT !.subtotal = subtotal, !.total_tax = total_tax,
                       !.total_amount = subtotal + total_tax]

(* A dict: validated_data holds the fields the request supplied. *)
EmptyDict == [k \in {} |-> None]
Merge(d, e) == [k \in DOMAIN d \cup DOMAIN e |-> IF k \in DOMAIN d THEN d[k] ELSE e[k]]
Get(d, key, default) == IF key \in DOMAIN d THEN d[key] ELSE default

UpdateData ==
    {Merge(Merge(s, d), i) :
        s \in {EmptyDict} \cup {[status |-> v] : v \in STATUS_CHOICES},
        d \in {EmptyDict} \cup {[issue_date |-> v] : v \in Dates},
        i \in {EmptyDict} \cup {[items |-> v] : v \in ItemLists}}

(* InvoiceSerializer.update *)
InvoiceSerializerUpdate(iid, validated_data) ==
    LET instance == invoices[iid]
        original_status == instance.status
        new_status == Get(validated_data, "status", original_status)
        fields == [instance EXCEPT !.status = new_status,
                       !.issue_date = Get(validated_data, "issue_date", instance.issue_date)]
        saved == IF "items" \in DOMAIN validated_data
                 THEN LET items_data == validated_data["items"]
                      IN [fields EXCEPT !.items = SaveItems(items_data),
                                        !.subtotal = SumAmount(items_data, 1),
                                        !.total_tax = SumTax(items_data, 1),
                                        !.total_amount = SumAmount(items_data, 1) + SumTax(items_data, 1)]
                 ELSE calculate_totals(fields)
        st == Store(accounts, transactions, journal_entries)
        posts == original_status = DRAFT /\ new_status = SENT /\ instance.transaction = None
        gl == create_invoice_gl_transaction(saved, iid, st)
    IN /\ UNCHANGED payroll
       /\ request' = [op |-> "updateInvoice", invoice |-> iid,
                      status |-> Get(validated_data, "status", "")]
       /\ response' = [outcome |-> "updated", detail |-> IF posts THEN gl.outcome ELSE "", id |-> iid]
       /\ IF posts
          THEN /\ accounts' = gl.store.accounts
               /\ transactions' = gl.store.transactions
               /\ journal_entries' = gl.store.journal_entries
               /\ invoices' = [invoices EXCEPT ![iid] =
                                  IF gl.outcome = "ok"
                                  THEN [saved EXCEPT !.transaction = gl.transaction]
                                  ELSE saved]
          ELSE /\ invoices' = [invoices EXCEPT ![iid] = saved]
               /\ UNCHANGED <<accounts, transactions, journal_entries>>

UpdateInvoice ==
    /\ request = NoRequest
    /\ UNCHANGED <<threads, reconciliation>>
    /\ \E iid \in DOMAIN invoices, validated_data \in UpdateData :
           /\ (/\ invoices[iid].status = DRAFT
               /\ Get(validated_data, "status", DRAFT) = SENT
               /\ invoices[iid].transaction = None)
                  => Cardinality(DOMAIN transactions) < MaxTxn
           /\ InvoiceSerializerUpdate(iid, validated_data)

(* InvoiceSendEmailView.post; email_sent_successfully is what               *)
(* email_utils.send_invoice_email returned.                                *)
InvoiceSendEmailViewPost(iid, email_sent_successfully) ==
    LET invoice == invoices[iid]
    IN /\ request' = [op |-> "sendInvoiceEmail", invoice |-> iid, status |-> ""]
       /\ UNCHANGED payroll
       /\ UNCHANGED <<accounts, transactions, journal_entries>>
       /\ IF invoice.status = PAID \/ invoice.status = VOID
          THEN /\ invoices' = invoices
               /\ response' = [outcome |-> "HTTP_400_BAD_REQUEST", detail |-> "cannot be sent", id |-> iid]
          ELSE IF email_sent_successfully
          THEN /\ invoices' = [invoices EXCEPT ![iid].status =
                                  IF invoice.status = DRAFT THEN SENT ELSE @]
               /\ response' = [outcome |-> "HTTP_200_OK", detail |-> "Invoice sent successfully.", id |-> iid]
          ELSE /\ invoices' = invoices
               /\ response' = [outcome |-> "error", detail |-> "Failed to send invoice email.", id |-> iid]

SendInvoiceEmail ==
    /\ request = NoRequest
    /\ UNCHANGED <<threads, reconciliation>>
    /\ \E iid \in DOMAIN invoices, email_sent_successfully \in BOOLEAN :
           InvoiceSendEmailViewPost(iid, email_sent_successfully)

----------------------------------------------------------------------------
(* Employee, DeductionType, PayRun, Payslip; payroll_service *)

SALARY == "SALARY"
HOURLY == "HOURLY"

PAYRUN_DRAFT == "DRAFT"
PROCESSING == "PROCESSING"
COMPLETED == "COMPLETED"
VOIDED == "VOIDED"

(* The Employee rows; pay_rate in cents. *)
Employees ==
    <<[organization |-> "org1", pay_type |-> SALARY, pay_rate |-> 52, is_active |-> TRUE],
      [organization |-> "org1", pay_type |-> HOURLY, pay_rate |-> 1, is_active |-> TRUE],
      [organization |-> "org1", pay_type |-> SALARY, pay_rate |-> 39, is_active |-> FALSE],
      [organization |-> "org2", pay_type |-> SALARY, pay_rate |-> 52, is_active |-> TRUE]>>

(* The DeductionType rows. *)
DeductionTypes ==
    <<[organization |-> "org1", name |-> "Health Insurance", is_active |-> TRUE],
      [organization |-> "org2", name |-> "Pension", is_active |-> TRUE]>>

(* Decimal.quantize(Decimal('0.01')) of n/d cents, ROUND_HALF_EVEN, n >= 0. *)
Quantize(n, d) ==
    LET q == n \div d
        r == n % d
    IN IF 2 * r < d THEN q
       ELSE IF 2 * r > d THEN q + 1
       ELSE IF q % 2 = 0 THEN q ELSE q + 1

num_pay_periods_in_year == 26

(* calculate_gross_pay; hours_worked is NoHours when the argument is None. *)
NoHours == 0 - 1

calculate_gross_pay(employee, hours_worked) ==
    IF employee.pay_type = SALARY
    THEN Quantize(employee.pay_rate, num_pay_periods_in_year)
    ELSE IF employee.pay_type = HOURLY
    THEN Quantize(employee.pay_rate * (IF hours_worked = NoHours THEN 0 ELSE hours_worked), 1)
    ELSE 0

Abs(x) == IF x < 0 THEN 0 - x ELSE x

(* aggregated_deductions[agg_key] = ded_amount: the amount replaces the    *)
(* sum so far instead of being added to it.                                *)
AggregateOverwrites(aggregated, agg_key, ded_amount) ==
    Merge([k \in {agg_key} |-> ded_amount], aggregated)

(* aggregated_deductions[agg_key] =                                        *)
(*     aggregated_deductions.get(agg_key, Decimal('0.00')) + ded_amount    *)
Aggregate(aggregated, agg_key, ded_amount) ==
    Merge([k \in {agg_key} |-> Get(aggregated, agg_key, 0) + ded_amount], aggregated)

(* The for-loop over manual_deductions_data of one row. acc holds the     *)
(* PayslipDeduction table, current_payslip_total_deductions and            *)
(* aggregated_deductions.                                                  *)
RECURSIVE ApplyDeductions(_, _, _, _, _)
ApplyDeductions(manual_deductions_data, i, slip, organization, acc) ==
    IF i > Len(manual_deductions_data) THEN acc
    ELSE LET ded_input == manual_deductions_data[i]
             ded_type_id == ded_input.deduction_type_id
             found == /\ ded_type_id \in DOMAIN DeductionTypes
                      /\ DeductionTypes[ded_type_id].organization = organization
                      /\ DeductionTypes[ded_type_id].is_active
             ded_amount == ded_input.amount
             agg_key == DeductionTypes[ded_type_id].name
         IN IF ~found \/ ded_amount < 0
            THEN ApplyDeductions(manual_deductions_data, i + 1, slip, organization, acc)
            ELSE ApplyDeductions(manual_deductions_data, i + 1, slip, organization,
                     [deductions |-> Insert(acc.deductions, NewId(acc.deductions),
                                         [payslip |-> slip, deduction_type |-> ded_type_id,
                                          amount |-> ded_amount]),
                      total |-> acc.total + ded_amount,
                      aggregated |-> Aggregate(acc.aggregated, agg_key, ded_amount)])

(* Payslip.objects.update_or_create(pay_run=, employee=): the key of the   *)
(* row for the pair, None when there is none.                              *)
PayslipOf(slips, pr, employee_id) ==
    IF \E k \in DOMAIN slips : slips[k].pay_run = pr /\ slips[k].employee = employee_id
    THEN CHOOSE k \in DOMAIN slips : slips[k].pay_run = pr /\ slips[k].employee = employee_id
    ELSE None

(* The fields the defaults of Payslip.objects.update_or_create carry: a    *)
(* row it has to INSERT gets no net_pay, a column that is NOT NULL and has *)
(* no default.                                                             *)
update_or_create_defaults == {"gross_pay", "notes"}

(* Employee.objects.get(id=employee_id, organization=..., is_active=True)  *)
(* without its is_active filter.                                           *)
EmployeeFoundInactiveToo(employee_id, organization) ==
    /\ employee_id \in DOMAIN Employees
    /\ Employees[employee_id].organization = organization

(* Employee.objects.get(id=employee_id, organization=..., is_active=True)  *)
(* finds a row.                                                            *)
EmployeeFound(employee_id, organization) ==
    /\ employee_id \in DOMAIN Employees
    /\ Employees[employee_id].organization = organization
    /\ Employees[employee_id].is_active

(* The for-loop over employee_inputs.  w is the state of the run:          *)
(* the Payslip and PayslipDeduction tables, the run totals, the payslips   *)
(* processed, the local variables payslip/created left by the previous     *)
(* iteration (payslip = None: not bound yet) and the exception raised.     *)
RECURSIVE ProcessRows(_, _, _, _)
ProcessRows(employee_inputs, i, pr, w) ==
    IF i > Len(employee_inputs) \/ w.raised # "" THEN w
    ELSE LET emp_input == employee_inputs[i]
             employee_id == emp_input.employee_id
             organization == pay_runs[pr].organization
             found == EmployeeFound(employee_id, organization)
             hours == emp_input.hours_worked
             gross_pay == calculate_gross_pay(Employees[employee_id], hours)
             existing == PayslipOf(w.payslips, pr, employee_id)
             created == existing = None
             slip == IF created THEN NewId(w.payslips) ELSE existing
             notes == IF hours # NoHours THEN "Hours"
                      ELSE IF ~w.created THEN w.payslips[w.payslip].notes ELSE ""
             kept == IF created THEN w.payslip_deductions
                     ELSE [k \in {d \in DOMAIN w.payslip_deductions :
                                     w.payslip_deductions[d].payslip # slip}
                              |-> w.payslip_deductions[k]]
             ded == ApplyDeductions(emp_input.manual_deductions, 1, slip, organization,
                        [deductions |-> kept, total |-> 0, aggregated |-> w.aggregated_deductions])
             row == [pay_run |-> pr, employee |-> employee_id, gross_pay |-> gross_pay,
                     total_deductions |-> ded.total, net_pay |-> gross_pay - ded.total,
                     notes |-> notes]
         IN IF ~found THEN ProcessRows(employee_inputs, i + 1, pr, w)
            ELSE IF hours = NoHours /\ w.payslip = None
            THEN [w EXCEPT !.raised = "UnboundLocalError"]
            ELSE IF created /\ "net_pay" \notin update_or_create_defaults
            THEN [w EXCEPT !.raised = "IntegrityError"]
            ELSE ProcessRows(employee_inputs, i + 1, pr,
                     [payslips |-> Insert(w.payslips, slip, row),
                      payslip_deductions |-> ded.deductions,
                      total_run_gross_pay |-> w.total_run_gross_pay + gross_pay,
                      total_run_net_pay |-> w.total_run_net_pay + row.net_pay,
                      aggregated_deductions |-> ded.aggregated,
                      processed_payslips_for_gl |-> Append(w.processed_payslips_for_gl, slip),
                      payslip |-> slip, created |-> created, raised |-> ""])

RECURSIVE SumValues(_, _)
SumValues(d, keys) ==
    IF keys = {} THEN 0
    ELSE LET k == CHOOSE x \in keys : TRUE IN d[k] + SumValues(d, keys \ {k})

(* The status test of process_pay_run letting a COMPLETED pay run through. *)
StatusAllowsProcessingCompleted(status) == status \in {PAYRUN_DRAFT, PROCESSING, COMPLETED}

(* pay_run.status in [PayRun.DRAFT, PayRun.PROCESSING] *)
StatusAllowsProcessing(status) == status \in {PAYRUN_DRAFT, PROCESSING}

(* The columns of PayRun: Model.save() writes these and no other attribute *)
(* of the instance.                                                        *)
PayRunColumns ==
    {"organization", "payment_date", "status", "notes", "processed_by", "processed_at"}

PayRunSave(instance) == [f \in DOMAIN instance \cap PayRunColumns |-> instance[f]]

(* A function that commits whatever it wrote, also when it raises. *)
NotAtomic(raised, before, written) == written

(* @db_transaction.atomic: the writes of a call that raises are rolled     *)
(* back.                                                                   *)
Atomic(raised, before, written) == IF raised # "" THEN before ELSE written

(* process_pay_run from the end of its loop over employee_inputs, which   *)
(* left w: the exception raised, if any, and the store as written when it  *)
(* was raised or when the function returned.                               *)
PostPayRun(pr, w) ==
    LET pay_run == pay_runs[pr]
        organization == pay_run.organization
        initial_status == pay_run.status
        exp == get_or_create_default_account(accounts, organization, EXPENSE,
                   "Payroll Expense", "Payroll Expenses (Default)")
        wag == get_or_create_default_account(exp.accounts, organization, LIABILITY,
                   "Wages Payable", "Wages Payable (Default)")
        dedacc == get_or_create_default_account(wag.accounts, organization, LIABILITY,
                   "Deductions Payable", "Deductions Payable (Default)")
        tid == NewId(transactions)
        txns == Insert(transactions, tid,
                    [organization |-> organization, date |-> pay_run.payment_date,
                     description |-> [kind |-> "payroll", ref |-> pr]])
        total_aggregated_deductions_amount ==
            SumValues(w.aggregated_deductions, DOMAIN w.aggregated_deductions)
        je1 == CreateEntry(journal_entries, tid, exp.account, w.total_run_gross_pay, 0)
        je2 == CreateEntry(je1, tid, wag.account, 0, w.total_run_net_pay)
        je3 == IF total_aggregated_deductions_amount > 0
               THEN CreateEntry(je2, tid, dedacc.account, 0, total_aggregated_deductions_amount)
               ELSE je2
        current_debits == SumDebit(je3, EntriesOf(je3, tid))
        current_credits == SumCredit(je3, EntriesOf(je3, tid))
        before == [accounts |-> accounts, transactions |-> transactions,
                   journal_entries |-> journal_entries, pay_runs |-> pay_runs,
                   payslips |-> payslips, payslip_deductions |-> payslip_deductions]
        processing == [before EXCEPT !.pay_runs[pr].status = PROCESSING]
        looped == [processing EXCEPT !.payslips = w.payslips,
                                     !.payslip_deductions = w.payslip_deductions]
        completed == [f \in DOMAIN pay_run \cup {"gl_transaction"} |->
                         IF f = "gl_transaction" THEN tid
                         ELSE IF f = "status" THEN COMPLETED
                         ELSE IF f = "processed_by" THEN 1
                         ELSE IF f = "processed_at" THEN 1
                         ELSE pay_run[f]]
        step ==
            IF ~StatusAllowsProcessing(pay_run.status)
            THEN [raised |-> "ValueError: status", written |-> before]
            ELSE IF w.raised # ""
            THEN [raised |-> w.raised, written |-> looped]
            ELSE IF w.processed_payslips_for_gl = <<>>
            THEN [raised |-> "ValueError: No employee data processed",
                  written |-> [looped EXCEPT !.pay_runs[pr].status = initial_status,
                                             !.pay_runs[pr].notes = "Processing failed"]]
            ELSE IF exp.raised
            THEN [raised |-> "IntegrityError", written |-> looped]
            ELSE IF wag.raised
            THEN [raised |-> "IntegrityError",
                  written |-> [looped EXCEPT !.accounts = exp.accounts]]
            ELSE IF dedacc.raised
            THEN [raised |-> "IntegrityError",
                  written |-> [looped EXCEPT !.accounts = wag.accounts]]
            ELSE IF ~JournalEntryClean(w.total_run_gross_pay, 0)
            THEN [raised |-> "django.ValidationError",
                  written |-> [looped EXCEPT !.accounts = dedacc.accounts,
                                             !.transactions = txns]]
            ELSE IF ~JournalEntryClean(0, w.total_run_net_pay)
            THEN [raised |-> "django.ValidationError",
                  written |-> [looped EXCEPT !.accounts = dedacc.accounts,
                                             !.transactions = txns,
                                             !.journal_entries = je1]]
            ELSE IF 2 * Abs(current_debits - current_credits) > 1
            THEN [raised |-> "ValueError: unbalanced",
                  written |-> [looped EXCEPT !.accounts = dedacc.accounts,
                                             !.transactions = txns,
                                             !.journal_entries = je3]]
            ELSE [raised |-> "",
                  written |-> [looped EXCEPT !.accounts = dedacc.accounts,
                                             !.transactions = txns,
                                             !.journal_entries = je3,
                                             !.pay_runs[pr] = PayRunSave(completed)]]
    IN [raised |-> step.raised, tid |-> tid,
        after |-> Atomic(step.raised, before, step.written)]

(* process_pay_run.  The response carries the outcome: the exception       *)
(* raised, or "processed" with the key of the GL Transaction.              *)
process_pay_run(pr, employee_inputs) ==
    \E w \in {ProcessRows(employee_inputs, 1, pr,
                 [payslips |-> payslips, payslip_deductions |-> payslip_deductions,
                  total_run_gross_pay |-> 0, total_run_net_pay |-> 0,
                  aggregated_deductions |-> EmptyDict, processed_payslips_for_gl |-> <<>>,
                  payslip |-> None, created |-> FALSE, raised |-> ""])} :
    \E run \in {PostPayRun(pr, w)} :
    LET after == run.after
    IN /\ request' = [op |-> "processPayRun", pay_run |-> pr, employee_inputs |-> employee_inputs]
       /\ UNCHANGED invoices
       /\ accounts' = after.accounts
       /\ transactions' = after.transactions
       /\ journal_entries' = after.journal_entries
       /\ pay_runs' = after.pay_runs
       /\ payslips' = after.payslips
       /\ payslip_deductions' = after.payslip_deductions
       /\ response' = IF run.raised # ""
                      THEN [outcome |-> run.raised, detail |-> "", id |-> None]
                      ELSE [outcome |-> "processed", detail |-> "", id |-> run.tid]

DeductionInput == [deduction_type_id : 1..(Len(DeductionTypes) + 1), amount : {0 - 1, 1, 2}]

EmployeeInput ==
    [employee_id : 1..(Len(Employees) + 1),
     hours_worked : {NoHours} \cup 0..MaxHours,
     manual_deductions : UNION {[1..n -> DeductionInput] : n \in 0..MaxDeductions}]

EmployeeInputLists == UNION {[1..n -> EmployeeInput] : n \in 0..MaxRows}

ProcessPayRun ==
    /\ request = NoRequest
    /\ UNCHANGED <<threads, reconciliation>>
    /\ Cardinality(DOMAIN transactions) < MaxTxn
    /\ \E pr \in DOMAIN pay_runs, employee_inputs \in EmployeeInputLists :
           process_pay_run(pr, employee_inputs)

(* calculate_gross_pay called on an employee, with hours_worked given or   *)
(* left out.                                                               *)
CalculateGrossPay ==
    /\ request = NoRequest
    /\ \E employee \in DOMAIN Employees, hours_worked \in {NoHours} \cup 0..MaxHours :
           /\ request' = [op |-> "calculateGrossPay", employee |-> employee,
                          hours_worked |-> hours_worked]
           /\ response' = [outcome |-> "returned",
                           value |-> calculate_gross_pay(Employees[employee], hours_worked)]
    /\ UNCHANGED <<accounts, transactions, journal_entries, invoices, payroll, threads,
                   reconciliation>>

----------------------------------------------------------------------------
(* reporting_service *)

(* The calendar: dates are days counted from 1, a year is DaysPerYear days. *)
(* Reports are asked as of any day up to the one after the last posting day. *)
ReportDates == 1..(MaxDate + 1)

(* date(as_of_date.year, 1, 1) taken as as_of_date itself. *)
current_year_start_is_as_of_date(as_of_date) == as_of_date

(* date(as_of_date.year, 1, 1) *)
current_year_start(as_of_date) == ((as_of_date - 1) \div DaysPerYear) * DaysPerYear + 1

(* Account.objects.filter(organization=organization, type=type, is_active=True) *)
ActiveAccounts(organization, type) ==
    {a \in DOMAIN accounts :
        /\ accounts[a].organization = organization
        /\ accounts[a].type = type
        /\ accounts[a].is_active}

(* The loops that add up acc.get_balance(date_to=as_of_date). *)
RECURSIVE TotalBalance(_, _)
TotalBalance(accts, as_of_date) ==
    IF accts = {} THEN 0
    ELSE LET acc == CHOOSE a \in accts : TRUE
         IN get_balance(acc, as_of_date) + TotalBalance(accts \ {acc}, as_of_date)

(* The loops that add up acc.get_period_activity(date_from, date_to). *)
RECURSIVE TotalActivity(_, _, _)
TotalActivity(accts, date_from, date_to) ==
    IF accts = {} THEN 0
    ELSE LET acc == CHOOSE a \in accts : TRUE
         IN get_period_activity(acc, date_from, date_to)
                + TotalActivity(accts \ {acc}, date_from, date_to)

(* get_profit_and_loss_data *)
get_profit_and_loss_data(organization, date_from, date_to) ==
    LET total_revenue == TotalActivity(ActiveAccounts(organization, REVENUE), date_from, date_to)
        total_expenses == TotalActivity(ActiveAccounts(organization, EXPENSE), date_from, date_to)
    IN [total_revenue |-> total_revenue, total_expenses |-> total_expenses,
        net_income |-> total_revenue - total_expenses]

(* get_balance_sheet_data *)
get_balance_sheet_data(organization, as_of_date) ==
    LET total_assets == TotalBalance(ActiveAccounts(organization, ASSET), as_of_date)
        total_liabilities == TotalBalance(ActiveAccounts(organization, LIABILITY), as_of_date)
        total_explicit_equity == TotalBalance(ActiveAccounts(organization, EQUITY), as_of_date)
        start == current_year_start(as_of_date)
        current_year_net_income ==
            IF as_of_date >= start
            THEN get_profit_and_loss_data(organization, start, as_of_date).net_income
            ELSE 0
        total_equity_calculated == total_explicit_equity + current_year_net_income
        verification_difference == total_assets - (total_liabilities + total_equity_calculated)
    IN [total_assets |-> total_assets,
        total_liabilities |-> total_liabilities,
        total_equity |-> total_equity_calculated,
        current_year_net_income |-> current_year_net_income,
        verification |->
            [assets_equals_liabilities_plus_equity |-> Abs(verification_difference) <= 1,
             difference |-> verification_difference]]

(* BalanceSheetView.get *)
GetBalanceSheet ==
    /\ request = NoRequest
    /\ \E as_of_date \in ReportDates :
           /\ request' = [op |-> "getBalanceSheet", as_of_date |-> as_of_date]
           /\ response' = [outcome |-> "report",
                           value |-> get_balance_sheet_data(UserOrganization, as_of_date)]
    /\ UNCHANGED <<accounts, transactions, journal_entries, invoices, payroll, threads,
                   reconciliation>>

(* AccountDetailView, PATCH {is_active}: an account of the tenant is        *)
(* deactivated or activated again.                                         *)
UpdateAccount ==
    /\ request = NoRequest
    /\ \E account \in DOMAIN accounts, is_active \in BOOLEAN :
           /\ accounts[account].organization = UserOrganization
           /\ accounts' = [accounts EXCEPT ![account].is_active = is_active]
           /\ request' = [op |-> "updateAccount", account |-> account, is_active |-> is_active]
           /\ response' = [outcome |-> "updated"]
    /\ UNCHANGED <<transactions, journal_entries, invoices, payroll, threads, reconciliation>>

----------------------------------------------------------------------------
(* StagedBankTransaction, ReconciliationRule, reconciliation_service *)

RECON_UNMATCHED == "UNMATCHED"
RECON_MATCHED == "MATCHED"
RECON_RULE_APPLIED == "RULE_APPLIED"
RECON_CREATED_TRANSACTION == "CREATED_TRANSACTION"
RECON_STATUS_CHOICES ==
    {RECON_UNMATCHED, RECON_MATCHED, RECON_RULE_APPLIED, RECON_CREATED_TRANSACTION}

(* Python values by type: a str, a Decimal (in cents), a JSON number (in   *)
(* cents), or any other object.                                            *)
PyStr(s) == [kind |-> "str", s |-> s, n |-> 0]
PyDecimal(n) == [kind |-> "Decimal", s |-> "", n |-> n]
PyNumber(n) == [kind |-> "int", s |-> "", n |-> n]
PyObject == [kind |-> "object", s |-> "", n |-> 0]

(* A key a JSON object does not have: dict.get returns None. *)
Missing == ""

(* The numerals of the model: str of a number, and Decimal(str) of text. *)
Numerals == <<"-0.02", "-0.01", "0", "0.01", "0.02">>

NumeralOf(n) == IF n + 3 \in DOMAIN Numerals THEN Numerals[n + 3] ELSE "number"

IsNumeral(s) == \E i \in DOMAIN Numerals : Numerals[i] = s

ValueOfNumeral(s) == (CHOOSE i \in DOMAIN Numerals : Numerals[i] = s) - 3

(* str(value) *)
StrOf(v) ==
    IF v.kind = "str" THEN v.s
    ELSE IF v.kind \in {"Decimal", "int"} THEN NumeralOf(v.n)
    ELSE "object"

(* needle.lower() in haystack.lower(), for the texts of the model. *)
LowerContains ==
    {<<"starbucks", "Starbucks Coffee">>,
     <<"Starbucks", "Starbucks Coffee">>,
     <<"office depot", "Office Depot">>,
     <<"0", "-0.02">>, <<"0", "-0.01">>, <<"0", "0.01">>, <<"0", "0.02">>,
     <<"0.01", "-0.01">>, <<"0.02", "-0.02">>}

IContains(needle, haystack) == needle = haystack \/ <<needle, haystack>> \in LowerContains

(* evaluate_condition treating an unsupported operator as a condition      *)
(* that passes.                                                            *)
evaluate_condition_unsupported_passes(transaction_value, operator, rule_value) ==
    LET numeric == {"Decimal", "int"}
        converts == /\ transaction_value.kind \in numeric
                    /\ rule_value.kind \in {"str", "int"}
                    /\ (rule_value.kind = "str" => IsNumeral(rule_value.s))
        tv == IF converts THEN PyDecimal(transaction_value.n) ELSE transaction_value
        rv == IF converts
              THEN PyDecimal(IF rule_value.kind = "str" THEN ValueOfNumeral(rule_value.s)
                             ELSE rule_value.n)
              ELSE IF transaction_value.kind = "str" THEN PyStr(StrOf(rule_value))
              ELSE rule_value
        equal == IF tv.kind \in numeric /\ rv.kind \in numeric THEN tv.n = rv.n
                 ELSE IF tv.kind = "str" /\ rv.kind = "str" THEN tv.s = rv.s
                 ELSE FALSE
    IN IF operator = "contains" THEN IContains(StrOf(rv), StrOf(tv))
       ELSE IF operator = "does_not_contain" THEN ~IContains(StrOf(rv), StrOf(tv))
       ELSE IF operator = "equals" THEN equal
       ELSE IF operator = "not_equals" THEN ~equal
       ELSE IF operator = "greater_than" /\ tv.kind \in numeric /\ rv.kind \in numeric
       THEN tv.n > rv.n
       ELSE IF operator = "less_than" /\ tv.kind \in numeric /\ rv.kind \in numeric
       THEN tv.n < rv.n
       ELSE operator \notin {"greater_than", "less_than"}

(* evaluate_condition *)
evaluate_condition(transaction_value, operator, rule_value) ==
    LET numeric == {"Decimal", "int"}
        converts == /\ transaction_value.kind \in numeric
                    /\ rule_value.kind \in {"str", "int"}
                    /\ (rule_value.kind = "str" => IsNumeral(rule_value.s))
        tv == IF converts THEN PyDecimal(transaction_value.n) ELSE transaction_value
        rv == IF converts
              THEN PyDecimal(IF rule_value.kind = "str" THEN ValueOfNumeral(rule_value.s)
                             ELSE rule_value.n)
              ELSE IF transaction_value.kind = "str" THEN PyStr(StrOf(rule_value))
              ELSE rule_value
        equal == IF tv.kind \in numeric /\ rv.kind \in numeric THEN tv.n = rv.n
                 ELSE IF tv.kind = "str" /\ rv.kind = "str" THEN tv.s = rv.s
                 ELSE FALSE
    IN IF operator = "contains" THEN IContains(StrOf(rv), StrOf(tv))
       ELSE IF operator = "does_not_contain" THEN ~IContains(StrOf(rv), StrOf(tv))
       ELSE IF operator = "equals" THEN equal
       ELSE IF operator = "not_equals" THEN ~equal
       ELSE IF operator = "greater_than" /\ tv.kind \in numeric /\ rv.kind \in numeric
       THEN tv.n > rv.n
       ELSE IF operator = "less_than" /\ tv.kind \in numeric /\ rv.kind \in numeric
       THEN tv.n < rv.n
       ELSE FALSE

(* hasattr(staged_tx, field_name) *)
HasAttr(staged_tx, field_name) == field_name \in DOMAIN staged_tx

(* getattr(staged_tx, field_name) *)
GetAttr(staged_tx, field_name) ==
    IF field_name = "amount" THEN PyDecimal(staged_tx.amount)
    ELSE IF field_name = "name" THEN PyStr(staged_tx.name)
    ELSE IF field_name = "reconciliation_status" THEN PyStr(staged_tx.reconciliation_status)
    ELSE IF field_name = "organization" THEN PyStr(staged_tx.organization)
    ELSE PyObject

(* The loop of check_rule_conditions from condition i on. *)
RECURSIVE CheckConditionsFrom(_, _, _)
CheckConditionsFrom(staged_tx, conditions, i) ==
    IF i > Len(conditions) THEN TRUE
    ELSE LET condition == conditions[i]
             field_name == condition.field
             operator == condition.operator
         IN IF field_name = Missing \/ operator = Missing
            THEN CheckConditionsFrom(staged_tx, conditions, i + 1)
            ELSE IF ~HasAttr(staged_tx, field_name) THEN FALSE
            ELSE IF ~evaluate_condition(GetAttr(staged_tx, field_name), operator, condition.value)
            THEN FALSE
            ELSE CheckConditionsFrom(staged_tx, conditions, i + 1)

(* check_rule_conditions without its test for a rule with no conditions. *)
check_rule_conditions_empty_matches(staged_tx, rule) ==
    CheckConditionsFrom(staged_tx, rule.conditions, 1)

(* check_rule_conditions *)
check_rule_conditions(staged_tx, rule) ==
    IF rule.conditions = <<>> THEN FALSE
    ELSE CheckConditionsFrom(staged_tx, rule.conditions, 1)

(* apply_rule_actions: the StagedBankTransaction row after the actions of  *)
(* the rule, from action i on.                                             *)
RECURSIVE apply_rule_actions(_, _, _, _)
apply_rule_actions(staged_tx, rule_id, actions, i) ==
    IF i > Len(actions) THEN staged_tx
    ELSE LET action_def == actions[i]
             account_id == action_def.account_id
             exists == /\ account_id \in DOMAIN accounts
                       /\ accounts[account_id].organization = staged_tx.organization
         IN IF action_def.action_type = "categorize" /\ exists
            THEN apply_rule_actions(
                     [staged_tx EXCEPT !.reconciliation_status = RECON_RULE_APPLIED,
                                       !.applied_rule = rule_id],
                     rule_id, actions, i + 1)
            ELSE apply_rule_actions(staged_tx, rule_id, actions, i + 1)

(* ReconciliationRule.objects.filter(organization, is_active=True)         *)
(* .order_by('priority'): every order of the rows the database may return, *)
(* rows of equal priority in any order.                                    *)
RuleOrders(organization) ==
    LET active == {r \in DOMAIN reconciliation_rules :
                      /\ reconciliation_rules[r].organization = organization
                      /\ reconciliation_rules[r].is_active}
    IN {order \in [1..Cardinality(active) -> active] :
           /\ \A i, j \in DOMAIN order : i # j => order[i] # order[j]
           /\ \A i, j \in DOMAIN order :
                  i < j => reconciliation_rules[order[i]].priority
                               <= reconciliation_rules[order[j]].priority}

(* The inner loop of run_reconciliation_rules_for_organization: the first  *)
(* rule of the order, from position i on, whose conditions pass; None when *)
(* there is none.                                                          *)
RECURSIVE FirstRule(_, _, _)
FirstRule(tx, rules, i) ==
    IF i > Len(rules) THEN None
    ELSE IF check_rule_conditions(tx, reconciliation_rules[rules[i]]) THEN rules[i]
    ELSE FirstRule(tx, rules, i + 1)

(* The outer loop of run_reconciliation_rules_for_organization over the    *)
(* transactions todo: the table after it and applied_count.                *)
RECURSIVE RunRules(_, _, _)
RunRules(run, rules, todo) ==
    IF todo = {} THEN run
    ELSE LET t == First(todo)
             tx == run.staged[t]
             rule == FirstRule(tx, rules, 1)
         IN IF rule = None THEN RunRules(run, rules, todo \ {t})
            ELSE RunRules([staged |-> [run.staged EXCEPT ![t] =
                                          apply_rule_actions(tx, rule,
                                              reconciliation_rules[rule].actions, 1)],
                           applied_count |-> run.applied_count + 1],
                          rules, todo \ {t})

run_reconciliation_rules_for_organization(organization, rules) ==
    LET unmatched_transactions ==
            {t \in DOMAIN staged_bank_transactions :
                /\ staged_bank_transactions[t].organization = organization
                /\ staged_bank_transactions[t].reconciliation_status = RECON_UNMATCHED}
    IN RunRules([staged |-> staged_bank_transactions, applied_count |-> 0],
                rules, unmatched_transactions)

(* ApplyReconciliationRulesView.post *)
ApplyReconciliationRules ==
    /\ request = NoRequest
    /\ \E rules \in RuleOrders(UserOrganization) :
       \E run \in {run_reconciliation_rules_for_organization(UserOrganization, rules)} :
           /\ staged_bank_transactions' = run.staged
           /\ request' = [op |-> "applyReconciliationRules", rules |-> rules]
           /\ response' = [outcome |-> "applied", value |-> run.applied_count]
    /\ UNCHANGED <<accounts, transactions, journal_entries, invoices, payroll, threads,
                   reconciliation_rules>>

(* StagedBankTransactionMatchView.post *)
MatchStagedBankTransaction ==
    /\ request = NoRequest
    /\ \E pk \in DOMAIN staged_bank_transactions, ledger_pro_tx_id \in 1..MaxTxn :
           LET staged_tx == staged_bank_transactions[pk]
               found == /\ ledger_pro_tx_id \in DOMAIN transactions
                        /\ transactions[ledger_pro_tx_id].organization = staged_tx.organization
           IN /\ staged_tx.organization = UserOrganization
              /\ request' = [op |-> "match", pk |-> pk, status |-> RECON_MATCHED]
              /\ IF staged_tx.reconciliation_status # RECON_UNMATCHED
                 THEN /\ response' = [outcome |-> "already reconciled", value |-> 400]
                      /\ UNCHANGED staged_bank_transactions
                 ELSE IF ~found
                 THEN /\ response' = [outcome |-> "not found", value |-> 404]
                      /\ UNCHANGED staged_bank_transactions
                 ELSE /\ response' = [outcome |-> "ok", value |-> 200]
                      /\ staged_bank_transactions' =
                             [staged_bank_transactions EXCEPT
                                 ![pk].linked_transaction = ledger_pro_tx_id,
                                 ![pk].reconciliation_status = RECON_MATCHED]
    /\ UNCHANGED <<accounts, transactions, journal_entries, invoices, payroll, threads,
                   reconciliation_rules>>

(* StagedBankTransactionCreateLedgerView.post *)
CreateLedgerFromStaged ==
    /\ request = NoRequest
    /\ \E pk \in DOMAIN staged_bank_transactions :
           LET staged_tx == staged_bank_transactions[pk]
           IN /\ staged_tx.organization = UserOrganization
              /\ request' = [op |-> "createLedger", pk |-> pk,
                             status |-> RECON_CREATED_TRANSACTION]
              /\ IF staged_tx.reconciliation_status # RECON_UNMATCHED
                 THEN /\ response' = [outcome |-> "already reconciled", value |-> 400]
                      /\ UNCHANGED staged_bank_transactions
                 ELSE /\ response' = [outcome |-> "ok", value |-> 200]
                      /\ staged_bank_transactions' =
                             [staged_bank_transactions EXCEPT
                                 ![pk].reconciliation_status = RECON_CREATED_TRANSACTION]
    /\ UNCHANGED <<accounts, transactions, journal_entries, invoices, payroll, threads,
                   reconciliation_rules>>

(* StagedBankTransactionDetailView (RetrieveUpdateAPIView) with            *)
(* StagedBankTransactionSerializer: a PATCH of reconciliation_status, a    *)
(* writable choice field.                                                  *)
UpdateStagedBankTransaction ==
    /\ request = NoRequest
    /\ \E pk \in DOMAIN staged_bank_transactions, status \in RECON_STATUS_CHOICES :
           /\ staged_bank_transactions[pk].organization = UserOrganization
           /\ request' = [op |-> "updateStaged", pk |-> pk, status |-> status]
           /\ response' = [outcome |-> "ok", value |-> 200]
           /\ staged_bank_transactions' =
                  [staged_bank_transactions EXCEPT ![pk].reconciliation_status = status]
    /\ UNCHANGED <<accounts, transactions, journal_entries, invoices, payroll, threads,
                   reconciliation_rules>>

(* check_rule_conditions called on a staged transaction and a rule. *)
CheckRuleConditions ==
    /\ request = NoRequest
    /\ \E pk \in DOMAIN staged_bank_transactions, rule \in DOMAIN reconciliation_rules :
           /\ request' = [op |-> "checkRuleConditions", pk |-> pk, rule |-> rule]
           /\ response' = [outcome |-> "returned",
                           value |-> check_rule_conditions(staged_bank_transactions[pk],
                                                           reconciliation_rules[rule])]
    /\ UNCHANGED <<accounts, transactions, journal_entries, invoices, payroll, threads,
                   reconciliation>>

----------------------------------------------------------------------------

(* Two requests update one invoice at the same time.  The view and         *)
(* InvoiceSerializer.update take no lock and open no database transaction: *)
(* each request reads the row, later saves it, later posts, and the other  *)
(* request may run between any two of these.                               *)

ConcurrentUpdateData ==
    {Merge(s, i) :
        s \in {[status |-> SENT]},
        i \in {EmptyDict} \cup {[items |-> v] : v \in ItemLists}}

(* UpdateAPIView.update: get_object() reads the row the serializer is      *)
(* given as its instance.                                                  *)
UpdateGetObject(caller) ==
    /\ threads[caller].pc = "idle"
    /\ \E iid \in DOMAIN invoices, validated_data \in ConcurrentUpdateData :
           threads' = [threads EXCEPT ![caller] =
                          [pc |-> "update", invoice |-> iid,
                           validated_data |-> validated_data,
                           instance |-> invoices[iid],
                           original_status |-> invoices[iid].status]]
    /\ UNCHANGED <<accounts, transactions, journal_entries, invoices, payroll,
                   reconciliation, request, response>>

(* InvoiceSerializer.update up to instance.save(): the fields of the       *)
(* request set on the instance read earlier, the items replaced or the     *)
(* totals recomputed from the stored items, every column written.          *)
UpdateSaveInstance(caller) ==
    /\ threads[caller].pc = "update"
    /\ LET t == threads[caller]
           validated_data == t.validated_data
           new_status == Get(validated_data, "status", t.original_status)
           fields == [t.instance EXCEPT !.status = new_status,
                          !.issue_date = Get(validated_data, "issue_date", t.instance.issue_date),
                          !.items = invoices[t.invoice].items]
           saved == IF "items" \in DOMAIN validated_data
                    THEN LET items_data == validated_data["items"]
                         IN [fields EXCEPT !.items = SaveItems(items_data),
                                           !.subtotal = SumAmount(items_data, 1),
                                           !.total_tax = SumTax(items_data, 1),
                                           !.total_amount = SumAmount(items_data, 1)
                                                                + SumTax(items_data, 1)]
                    ELSE calculate_totals(fields)
           posts == /\ t.original_status = DRAFT
                    /\ new_status = SENT
                    /\ saved.transaction = None
       IN /\ invoices' = [invoices EXCEPT ![t.invoice] = saved]
          /\ threads' = [threads EXCEPT ![caller] =
                            [t EXCEPT !.pc = IF posts THEN "post" ELSE "done",
                                      !.instance = saved]]
    /\ UNCHANGED <<accounts, transactions, journal_entries, payroll, reconciliation,
                   request, response>>

(* InvoiceSerializer.update from the call of _create_invoice_gl_transaction *)
(* on: the posting, and the link saved with update_fields=['transaction'].  *)
UpdatePostTransaction(caller) ==
    /\ threads[caller].pc = "post"
    /\ Cardinality(DOMAIN transactions) < MaxTxn
    /\ LET t == threads[caller]
       IN \E gl \in {create_invoice_gl_transaction(t.instance, t.invoice,
                         Store(accounts, transactions, journal_entries))} :
              /\ accounts' = gl.store.accounts
              /\ transactions' = gl.store.transactions
              /\ journal_entries' = gl.store.journal_entries
              /\ invoices' = IF gl.outcome = "ok"
                             THEN [invoices EXCEPT ![t.invoice].transaction = gl.transaction]
                             ELSE invoices
              /\ threads' = [threads EXCEPT ![caller] =
                                [t EXCEPT !.pc = "done",
                                          !.instance =
                                              IF gl.outcome = "ok"
                                              THEN [t.instance EXCEPT !.transaction = gl.transaction]
                                              ELSE t.instance]]
    /\ UNCHANGED <<payroll, reconciliation, request, response>>

ConcurrentUpdate ==
    \E caller \in Callers :
        \/ UpdateGetObject(caller)
        \/ UpdateSaveInstance(caller)
        \/ UpdatePostTransaction(caller)

----------------------------------------------------------------------------

(* The response is returned; the server waits for the next request. *)
Respond ==
    /\ request # NoRequest
    /\ request' = NoRequest
    /\ response' = NoResponse
    /\ UNCHANGED <<accounts, transactions, journal_entries, invoices, payroll, threads,
                   reconciliation>>

----------------------------------------------------------------------------

(* The chart of accounts the tenants start with: one account of the other *)
(* tenant, and two accounts of the acting tenant, the second of any type.  *)
Chart(type) ==
    <<[organization |-> "org2", name |-> "Accounts Receivable (Default)",
       type |-> ASSET, is_active |-> TRUE],
      [organization |-> "org1", name |-> "Bank", type |-> ASSET, is_active |-> TRUE],
      [organization |-> "org1", name |-> "General", type |-> type, is_active |-> TRUE]>>

Start(chart, slips, status) ==
    /\ accounts = chart
    /\ transactions = <<>>
    /\ journal_entries = <<>>
    /\ invoices = <<>>
    /\ pay_runs = <<[organization |-> "org1", payment_date |-> MaxDate, status |-> status,
                     notes |-> "", processed_by |-> None, processed_at |-> None]>>
    /\ payslips = slips
    /\ payslip_deductions = <<>>
    /\ threads = [caller \in Callers |-> Idle]
    /\ staged_bank_transactions = <<>>
    /\ reconciliation_rules = <<>>
    /\ request = NoRequest
    /\ response = NoResponse

Init == Start(Chart(EQUITY), <<>>, PAYRUN_DRAFT)

InitLedger == \E type \in ACCOUNT_TYPE_CHOICES : Start(Chart(type), <<>>, PAYRUN_DRAFT)

(* The pay run as the API creates it, or with a payslip entered for the    *)
(* salaried or the hourly employee or a status set through the admin site. *)
InitPayroll ==
    \E slips \in {<<>>} \cup {<<[pay_run |-> 1, employee |-> e, gross_pay |-> 2,
                                   total_deductions |-> 0, net_pay |-> 2, notes |-> ""]>> :
                                    e \in {1, 2}},
       status \in {PAYRUN_DRAFT, PROCESSING, VOIDED} :
        Start(Chart(EQUITY), slips, status)

(* The accounts a tenant may hold when the resolver is first called: each  *)
(* row of the pool absent, active or deactivated.                          *)
AccountPool ==
    <<[organization |-> "org1", name |-> "Accounts Receivable (Default)", type |-> ASSET],
      [organization |-> "org1", name |-> "Trade accounts receivable", type |-> ASSET],
      [organization |-> "org1", name |-> "Accounts Receivable - Other", type |-> ASSET],
      [organization |-> "org2", name |-> "Accounts Receivable (Default)", type |-> ASSET]>>

RECURSIVE ChartOf(_, _)
ChartOf(presence, i) ==
    IF i > Len(AccountPool) THEN <<>>
    ELSE IF presence[i] = "absent" THEN ChartOf(presence, i + 1)
    ELSE <<[organization |-> AccountPool[i].organization, name |-> AccountPool[i].name,
            type |-> AccountPool[i].type, is_active |-> presence[i] = "active"]>>
         \o ChartOf(presence, i + 1)

InitResolver ==
    \E presence \in [1..Len(AccountPool) -> {"absent", "active", "inactive"}] :
        Start(ChartOf(presence, 1), <<>>, PAYRUN_DRAFT)

(* The staged bank transactions of the feed: an outflow and an inflow of   *)
(* the acting tenant.                                                      *)
StagedFeed ==
    <<[organization |-> "org1", name |-> "Starbucks Coffee", amount |-> 0 - 1,
       reconciliation_status |-> RECON_UNMATCHED, linked_transaction |-> None,
       applied_rule |-> None],
      [organization |-> "org1", name |-> "Office Depot", amount |-> 1,
       reconciliation_status |-> RECON_UNMATCHED, linked_transaction |-> None,
       applied_rule |-> None]>>

(* Conditions a rule may hold: well-formed ones, one naming a field the    *)
(* transaction does not have, one with an unknown operator and one without *)
(* its field.                                                              *)
ConditionPool ==
    {[field |-> "name", operator |-> "contains", value |-> PyStr("starbucks")],
     [field |-> "amount", operator |-> "less_than", value |-> PyNumber(0)],
     [field |-> "amount", operator |-> "greater_than", value |-> PyStr("0")],
     [field |-> "name", operator |-> "equals", value |-> PyStr("Office Depot")],
     [field |-> "memo", operator |-> "equals", value |-> PyStr("starbucks")],
     [field |-> "name", operator |-> "starts_with", value |-> PyStr("Starbucks")],
     [field |-> Missing, operator |-> "contains", value |-> PyStr("starbucks")],
     [field |-> "name", operator |-> Missing, value |-> PyStr("starbucks")]}

ConditionLists == UNION {[1..n -> ConditionPool] : n \in 0..MaxConditions}

(* The condition lists of the rules that are run over the feed. *)
RunConditionLists ==
    {<<>>,
     <<[field |-> "name", operator |-> "contains", value |-> PyStr("starbucks")]>>,
     <<[field |-> "amount", operator |-> "less_than", value |-> PyNumber(0)]>>}

(* The action lists of rules: none, a categorize naming an account of the  *)
(* tenant, one naming an account that is not the tenant's, and an action   *)
(* of another type.                                                        *)
ActionLists ==
    {<<>>,
     <<[action_type |-> "categorize", account_id |-> 2]>>,
     <<[action_type |-> "categorize", account_id |-> 1]>>,
     <<[action_type |-> "set_status", account_id |-> None]>>}

RuleNames == {"Alpha", "Zeta"}

Priorities == {0, 1}

Rules(conditions) ==
    [organization : {"org1"}, name : RuleNames, conditions : conditions,
     actions : ActionLists, priority : Priorities, is_active : BOOLEAN]

(* The store with a posted Transaction, the feed and the rules given. *)
StartReconciliation(rules) ==
    /\ accounts = Chart(EXPENSE)
    /\ transactions = <<[organization |-> "org1", date |-> 1,
                         description |-> [kind |-> "manual", ref |-> None]]>>
    /\ journal_entries = <<[transaction |-> 1, account |-> 3, debit_amount |-> 1,
                            credit_amount |-> 0],
                           [transaction |-> 1, account |-> 2, debit_amount |-> 0,
                            credit_amount |-> 1]>>
    /\ invoices = <<>>
    /\ pay_runs = <<>>
    /\ payslips = <<>>
    /\ payslip_deductions = <<>>
    /\ threads = [caller \in Callers |-> Idle]
    /\ staged_bank_transactions = StagedFeed
    /\ reconciliation_rules = rules
    /\ request = NoRequest
    /\ response = NoResponse

InitReconciliation ==
    \E rules \in UNION {[1..n -> Rules(RunConditionLists)] : n \in 0..MaxRules} :
        StartReconciliation(rules)

(* One rule with any list of conditions. *)
InitConditions ==
    \E rule \in [organization : {"org1"}, name : {"Alpha"}, conditions : ConditionLists,
                 actions : {<<>>}, priority : {0}, is_active : {TRUE}] :
        StartReconciliation(<<rule>>)

(* A DRAFT invoice without a Transaction, as InvoiceSerializer.create      *)
(* leaves it, in the ledger of a tenant that has posted nothing yet.       *)
InitConcurrentUpdate ==
    \E issue_date \in Dates, items_data \in ItemLists :
        /\ accounts = Chart(EQUITY)
        /\ transactions = <<>>
        /\ journal_entries = <<>>
        /\ invoices = <<[organization |-> UserOrganization, status |-> DRAFT,
                         issue_date |-> issue_date, items |-> SaveItems(items_data),
                         subtotal |-> SumAmount(items_data, 1),
                         total_tax |-> SumTax(items_data, 1),
                         total_amount |-> SumAmount(items_data, 1) + SumTax(items_data, 1),
                         transaction |-> None]>>
        /\ pay_runs = <<>>
        /\ payslips = <<>>
        /\ payslip_deductions = <<>>
        /\ threads = [caller \in Callers |-> Idle]
        /\ staged_bank_transactions = <<>>
        /\ reconciliation_rules = <<>>
        /\ request = NoRequest
        /\ response = NoResponse

Next == PostTransaction \/ GetBalance \/ GetPeriodActivity \/ Respond

Spec == InitLedger /\ [][Next]_vars

NextInvoice == CreateInvoice \/ UpdateInvoice \/ SendInvoiceEmail \/ Respond

SpecInvoice == Init /\ [][NextInvoice]_vars

NextPayroll == ProcessPayRun \/ CalculateGrossPay \/ Respond

SpecPayroll == InitPayroll /\ [][NextPayroll]_vars

NextResolver == Resolver

NextReconciliation ==
    \/ ApplyReconciliationRules
    \/ MatchStagedBankTransaction
    \/ CreateLedgerFromStaged
    \/ UpdateStagedBankTransaction
    \/ Respond

SpecReconciliation == InitReconciliation /\ [][NextReconciliation]_vars

NextConditions == CheckRuleConditions \/ Respond

SpecConditions == InitConditions /\ [][NextConditions]_vars

SpecConcurrentUpdate == InitConcurrentUpdate /\ [][ConcurrentUpdate]_vars

NextReports == PostTransaction \/ UpdateAccount \/ GetBalanceSheet \/ Respond

SpecReports == InitLedger /\ [][NextReports]_vars

SpecResolver == InitResolver /\ [][NextResolver]_vars

----------------------------------------------------------------------------
(* Properties of the manual posting path and of the balance queries,       *)
(* checked under Spec.                                                     *)

Balanced(t) ==
    SumDebit(journal_entries, EntriesOf(journal_entries, t))
        = SumCredit(journal_entries, EntriesOf(journal_entries, t))

InvalidLine(line) ==
    \/ line.debit_amount < 0
    \/ line.credit_amount < 0
    \/ (line.debit_amount > 0 /\ line.credit_amount > 0)
    \/ (line.debit_amount = 0 /\ line.credit_amount = 0)

(* The step that handles a postTransaction request. *)
Posting == request = NoRequest /\ request'.op = "postTransaction"

NothingPersisted == transactions' = transactions /\ journal_entries' = journal_entries

(* C1: in every reachable state, whether the posting operations before it  *)
(* succeeded or failed, every persisted Transaction has total debits equal *)
(* to total credits over its journal entries.                              *)
C1_EveryTransactionBalanced == \A t \in DOMAIN transactions : Balanced(t)

(* C2: a postTransaction whose line list holds an invalid line (debit < 0, *)
(* credit < 0, both > 0 or both = 0) at any position fails, and neither    *)
(* the Transaction nor any JournalEntry of it exists afterwards.           *)
C2_InvalidLineLeavesNothing ==
    [][(Posting /\ \E i \in DOMAIN request'.lines : InvalidLine(request'.lines[i]))
          => (response'.outcome # "created" /\ NothingPersisted)]_vars

(* C3: a postTransaction whose lines are each valid but whose total debits *)
(* differ from total credits fails, no Transaction or JournalEntry of the  *)
(* attempt remains, and get_balance of every account is what it was.       *)
C3_UnbalancedPostLeavesBalances ==
    [][(/\ Posting
        /\ \A i \in DOMAIN request'.lines : ~InvalidLine(request'.lines[i])
        /\ SumLines(request'.lines, "debit_amount", 1)
              # SumLines(request'.lines, "credit_amount", 1))
          => (/\ response'.outcome = "serializers.ValidationError"
              /\ NothingPersisted
              /\ accounts' = accounts
              /\ \A a \in DOMAIN accounts, d \in {None} \cup Dates :
                     get_balance(a, d)' = get_balance(a, d))]_vars

(* An unbalanced post of valid lines on the tenant's own accounts was      *)
(* refused while the ledger already held a posted transaction.             *)
C3_Witness ==
    /\ request.op = "postTransaction"
    /\ \A i \in DOMAIN request.lines :
           /\ ~InvalidLine(request.lines[i])
           /\ accounts[request.lines[i].account].organization = UserOrganization
    /\ SumLines(request.lines, "debit_amount", 1) # SumLines(request.lines, "credit_amount", 1)
    /\ response.outcome = "serializers.ValidationError"
    /\ \E a \in DOMAIN accounts : get_balance(a, None) # 0

Contribution(type, j) ==
    IF type \in {ASSET, EXPENSE}
    THEN journal_entries[j].debit_amount - journal_entries[j].credit_amount
    ELSE journal_entries[j].credit_amount - journal_entries[j].debit_amount

RECURSIVE SumContribution(_, _)
SumContribution(type, ids) ==
    IF ids = {} THEN 0
    ELSE LET k == CHOOSE j \in ids : TRUE
         IN Contribution(type, k) + SumContribution(type, ids \ {k})

DatedWithin(account, lo, hi) ==
    {j \in DOMAIN journal_entries :
        /\ journal_entries[j].account = account
        /\ \E day \in lo..hi : transactions[journal_entries[j].transaction].date = day}

(* C5: get_balance(account, date_to) is debits minus credits for ASSET and *)
(* EXPENSE accounts and credits minus debits for LIABILITY, EQUITY and     *)
(* REVENUE accounts over exactly the account's entries dated <= date_to    *)
(* (all of them when date_to is omitted); get_period_activity is the same  *)
(* signed sum over exactly the entries dated within [date_from, date_to].  *)
C5_BalanceIsSignedSum ==
    /\ request.op = "getBalance" =>
           response.value =
               SumContribution(accounts[request.account].type,
                   DatedWithin(request.account, 1,
                       IF request.date_to = None THEN MaxDate ELSE request.date_to))
    /\ request.op = "getPeriodActivity" =>
           response.value =
               SumContribution(accounts[request.account].type,
                   DatedWithin(request.account, request.date_from, request.date_to))

(* The balance of a credit-normal account as of the day of its first entry *)
(* was asked while it held a later entry as well, and came out positive.   *)
C5_Witness ==
    /\ request.op = "getBalance"
    /\ accounts[request.account].type = EQUITY
    /\ request.date_to # None
    /\ response.value > 0
    /\ response.value # get_balance(request.account, None)
    /\ \E j \in DOMAIN journal_entries :
           /\ journal_entries[j].account = request.account
           /\ transactions[journal_entries[j].transaction].date = request.date_to

(* The entries of the ledger stay within the organization of their         *)
(* transaction.                                                            *)
EntriesWithinOrganization ==
    \A j \in DOMAIN journal_entries :
        accounts[journal_entries[j].account].organization
            = transactions[journal_entries[j].transaction].organization

(* C6: every JournalEntry references an Account of the organization of its *)
(* Transaction (EntriesWithinOrganization), and a manual post with a line  *)
(* on another organization's account is rejected with nothing persisted.   *)
C6_ForeignLineLeavesNothing ==
    [][(Posting /\ \E i \in DOMAIN request'.lines :
                       accounts[request'.lines[i].account].organization # UserOrganization)
          => (/\ response'.outcome # "created"
              /\ NothingPersisted
              /\ EntriesWithinOrganization')]_vars

----------------------------------------------------------------------------
(* Properties of invoice-to-GL posting, checked under SpecInvoice.         *)

(* An update of an invoice that has a linked Transaction writes nothing to *)
(* the ledger, whatever status it carries.                                 *)
LinkedInvoiceNeverReposted ==
    [][(/\ request = NoRequest
        /\ request'.op = "updateInvoice"
        /\ invoices[request'.invoice].transaction # None)
          => (transactions' = transactions /\ journal_entries' = journal_entries)]_vars

(* C7: invoice posting never double-posts: after any sequence of invoice   *)
(* create and update operations the ledger holds at most one Transaction   *)
(* posted for any one invoice.                                             *)
C7_AtMostOnePostingPerInvoice ==
    \A t1, t2 \in DOMAIN transactions :
        (/\ transactions[t1].description.kind = "invoice"
         /\ transactions[t1].description = transactions[t2].description)
            => t1 = t2

(* C8: after any sequence of invoice create, update and send-email         *)
(* operations, every invoice whose status is SENT has a linked GL          *)
(* Transaction.                                                            *)
C8_SentInvoiceIsPosted ==
    \A i \in DOMAIN invoices :
        invoices[i].status = SENT => invoices[i].transaction # None

(* C9: when an invoice is created with status SENT and its GL posting      *)
(* fails, the creation fails and neither the invoice nor any Transaction   *)
(* or JournalEntry written during the attempt is persisted.                *)
C9_FailedCreateLeavesNothing ==
    [][(/\ request = NoRequest
        /\ request'.op = "createInvoice"
        /\ request'.status = SENT
        /\ response'.outcome # "created")
          => (/\ invoices' = invoices
              /\ transactions' = transactions
              /\ journal_entries' = journal_entries)]_vars

Named(account, substring) == <<accounts[account].name, substring>> \in NameIContains

(* The Transaction linked to invoice i is dated issue_date and holds the   *)
(* A/R debit, the revenue credit and, with tax, the tax credit, and no     *)
(* other entry.                                                            *)
PostedAsInvoiced(i) ==
    LET invoice == invoices[i]
        t == invoice.transaction
        entries == EntriesOf(journal_entries, t)
        Is(j, type, substring, debit_amount, credit_amount) ==
            /\ accounts[journal_entries[j].account].organization = invoice.organization
            /\ accounts[journal_entries[j].account].type = type
            /\ Named(journal_entries[j].account, substring)
            /\ journal_entries[j].debit_amount = debit_amount
            /\ journal_entries[j].credit_amount = credit_amount
        ar == {j \in entries : Is(j, ASSET, "Accounts Receivable", invoice.total_amount, 0)}
        rev == {j \in entries : Is(j, REVENUE, "Sales Revenue", 0, invoice.subtotal)}
        tax == {j \in entries : Is(j, LIABILITY, "Sales Tax Payable", 0, invoice.total_tax)}
    IN /\ t \in DOMAIN transactions
       /\ transactions[t].organization = invoice.organization
       /\ transactions[t].date = invoice.issue_date
       /\ Cardinality(ar) = 1
       /\ Cardinality(rev) = 1
       /\ Cardinality(tax) = (IF invoice.total_tax > 0 THEN 1 ELSE 0)
       /\ Cardinality(entries) = (IF invoice.total_tax > 0 THEN 3 ELSE 2)
       /\ entries = ar \cup rev \cup tax
       /\ SumDebit(journal_entries, entries) = invoice.total_amount
       /\ SumCredit(journal_entries, entries) = invoice.total_amount

(* C10: when an invoice is posted to the GL, the Transaction created is    *)
(* dated invoice.issue_date and consists of exactly one debit to Accounts  *)
(* Receivable for total_amount, one credit to Sales Revenue for subtotal   *)
(* and, if and only if total_tax > 0, one credit to Sales Tax Payable for  *)
(* total_tax, with total debits = total credits = total_amount.            *)
C10_PostingMatchesInvoice ==
    [][\A i \in DOMAIN invoices' :
          (/\ invoices'[i].transaction # None
           /\ (i \in DOMAIN invoices => invoices[i].transaction = None))
              => PostedAsInvoiced(i)']_vars

(* An invoice with tax, issued before the last day, was posted by an       *)
(* update from DRAFT to SENT with three journal entries.                   *)
C10_Witness ==
    /\ request.op = "updateInvoice"
    /\ request.status = SENT
    /\ response.detail = "ok"
    /\ invoices[request.invoice].total_tax > 0
    /\ invoices[request.invoice].issue_date < MaxDate
    /\ invoices[request.invoice].transaction # None
    /\ Cardinality(EntriesOf(journal_entries, invoices[request.invoice].transaction)) = 3

(* The transitions of Invoice.status the state machine allows. *)
InvoiceTransitions ==
    {<<DRAFT, SENT>>, <<SENT, PAID>>, <<DRAFT, VOID>>, <<SENT, VOID>>}

(* C11: an invoice's status changes only along DRAFT -> SENT, SENT -> PAID, *)
(* DRAFT -> VOID and SENT -> VOID: no invoice operation moves an invoice   *)
(* out of PAID or VOID, from SENT back to DRAFT or from DRAFT to PAID.     *)
C11_StatusFollowsStateMachine ==
    [][\A i \in DOMAIN invoices \cap DOMAIN invoices' :
          invoices'[i].status # invoices[i].status
              => <<invoices[i].status, invoices'[i].status>> \in InvoiceTransitions]_vars

(* The journal entries of the Transaction linked to invoice i that are on  *)
(* an account of that type whose name contains the substring.              *)
LinkedEntriesOn(i, type, substring) ==
    {j \in EntriesOf(journal_entries, invoices[i].transaction) :
        /\ accounts[journal_entries[j].account].type = type
        /\ Named(journal_entries[j].account, substring)}

(* The linked Transaction carries the invoice's totals as they now stand. *)
PostingCarriesTotals(i) ==
    /\ SumDebit(journal_entries, LinkedEntriesOn(i, ASSET, "Accounts Receivable"))
           = invoices[i].total_amount
    /\ SumCredit(journal_entries, LinkedEntriesOn(i, REVENUE, "Sales Revenue"))
           = invoices[i].subtotal
    /\ SumCredit(journal_entries, LinkedEntriesOn(i, LIABILITY, "Sales Tax Payable"))
           = invoices[i].total_tax

(* C28: in every reachable state the Transaction linked to an invoice      *)
(* debits Accounts Receivable by the invoice's current total_amount and    *)
(* credits Sales Revenue and Sales Tax Payable by its current subtotal and *)
(* total_tax, also after an update has replaced the items of the posted    *)
(* invoice.                                                                *)
C28_PostingFollowsInvoice ==
    \A i \in DOMAIN invoices :
        invoices[i].transaction # None => PostingCarriesTotals(i)

(* The posting of an invoice stops carrying its totals only in a step that *)
(* replaces the items of the posted invoice.                               *)
PostingFollowsUnlessItemsReplaced ==
    [][\A i \in DOMAIN invoices \cap DOMAIN invoices' :
          (/\ invoices[i].transaction # None
           /\ PostingCarriesTotals(i)
           /\ invoices'[i].items = invoices[i].items)
              => PostingCarriesTotals(i)']_vars

----------------------------------------------------------------------------
(* Account resolver *)

(* Two calls of get_or_create_default_account in a row with the same       *)
(* arguments, from the accounts of the current state.                      *)
Twice(args) ==
    LET first == get_or_create_default_account(accounts, args.organization, args.account_type,
                     args.account_name_substring, args.default_name)
        second == get_or_create_default_account(first.accounts, args.organization,
                     args.account_type, args.account_name_substring, args.default_name)
    IN [first |-> first, second |-> second]

NoneMatched(args) ==
    ExactMatches(accounts, args) = {} /\ SubstringMatches(accounts, args) = {}

Idempotent(args) ==
    LET calls == Twice(args)
    IN /\ calls.first.account \in DOMAIN calls.first.accounts
       /\ calls.second.account = calls.first.account
       /\ calls.second.accounts = calls.first.accounts
       /\ NoneMatched(args) => Cardinality(SameKey(calls.second.accounts, args)) = 1

(* Wherever the first call returns, the resolver is idempotent. *)
ResolverIdempotentWhereItReturns ==
    \A args \in ResolverArgs : ~Twice(args).first.raised => Idempotent(args)

(* C12: from any starting set of accounts, two calls of                    *)
(* get_or_create_default_account with identical arguments both return the  *)
(* same account, the second call creates no account, and exactly one row   *)
(* of that default exists afterwards when none matched beforehand.         *)
C12_ResolverIdempotent ==
    \A args \in ResolverArgs :
        /\ ~Twice(args).first.raised
        /\ ~Twice(args).second.raised
        /\ Idempotent(args)

(* Two callers that both asked for a default when no account matched it   *)
(* and no row of it existed, and have both come back.                      *)
FirstTimeCallers ==
    {pair \in Callers \X Callers :
        /\ pair[1] # pair[2]
        /\ threads[pair[1]].pc = "done" /\ threads[pair[2]].pc = "done"
        /\ threads[pair[1]].args = threads[pair[2]].args
        /\ threads[pair[1]].first_time /\ threads[pair[2]].first_time}

(* C13: when two callers resolve the same default for the first time and   *)
(* their lookups and creates interleave, the one that loses the create     *)
(* treats the unique-constraint violation as "already created": neither    *)
(* gets an error, both get the same account and exactly one row exists.    *)
C13_RacingCallersAgree ==
    \A pair \in FirstTimeCallers :
        /\ threads[pair[1]].raised = "" /\ threads[pair[2]].raised = ""
        /\ threads[pair[1]].account = threads[pair[2]].account
        /\ Cardinality(SameKey(accounts, threads[pair[1]].args)) = 1

----------------------------------------------------------------------------
(* Payroll *)

(* The last request was a process_pay_run call and it returned. *)
Processed == request.op = "processPayRun" /\ response.outcome = "processed"

RunSlips(pr) == {k \in DOMAIN payslips : payslips[k].pay_run = pr}

RECURSIVE SumSlips(_, _)
SumSlips(field, keys) ==
    IF keys = {} THEN 0
    ELSE LET k == CHOOSE x \in keys : TRUE
         IN payslips[k][field] + SumSlips(field, keys \ {k})

(* The journal entries of transaction tid on the account of that name. *)
PostedTo(tid, name) ==
    {j \in EntriesOf(journal_entries, tid) : accounts[journal_entries[j].account].name = name}

(* C14: after every successful process_pay_run, whatever the input rows    *)
(* (the same employee may be named more than once), the run's GL           *)
(* Transaction is dated payment_date, its Payroll Expense debit is the sum *)
(* of gross_pay over the run's persisted payslips, its Wages Payable       *)
(* credit the sum of their net_pay, and a Deductions Payable credit of     *)
(* the sum of their total_deductions is present iff that sum is > 0.       *)
C14_GLMatchesPayslips ==
    Processed =>
        LET pr == request.pay_run
            tid == response.id
            deductions == PostedTo(tid, "Deductions Payable (Default)")
        IN /\ transactions[tid].date = pay_runs[pr].payment_date
           /\ SumDebit(journal_entries, PostedTo(tid, "Payroll Expenses (Default)"))
                  = SumSlips("gross_pay", RunSlips(pr))
           /\ SumCredit(journal_entries, PostedTo(tid, "Wages Payable (Default)"))
                  = SumSlips("net_pay", RunSlips(pr))
           /\ deductions # {} <=> SumSlips("total_deductions", RunSlips(pr)) > 0
           /\ SumCredit(journal_entries, deductions)
                  = SumSlips("total_deductions", RunSlips(pr))

(* The rows of the last request that name an employee of the tenant who    *)
(* is active name different employees.                                     *)
DistinctRows ==
    \A i, j \in DOMAIN request.employee_inputs :
        (/\ i # j
         /\ EmployeeFound(request.employee_inputs[i].employee_id, UserOrganization))
            => request.employee_inputs[i].employee_id # request.employee_inputs[j].employee_id

(* Without a row naming an employee twice the posting matches the          *)
(* payslips.                                                               *)
GLMatchesPayslipsOfDistinctRows == (Processed /\ DistinctRows) => C14_GLMatchesPayslips

(* The stored PayRun row holds a link to a GL Transaction posted for it. *)
LinksTransaction(pr) ==
    /\ "gl_transaction" \in DOMAIN pay_runs[pr]
    /\ pay_runs[pr].gl_transaction \in DOMAIN transactions
    /\ transactions[pay_runs[pr].gl_transaction].description = [kind |-> "payroll", ref |-> pr]

(* C15: a PayRun as stored is COMPLETED only if it links to the GL         *)
(* Transaction its run created, and a run that succeeded leaves the stored *)
(* PayRun COMPLETED with the processor, the timestamp and that link.       *)
C15_CompletedLinksTransaction ==
    /\ \A pr \in DOMAIN pay_runs :
           pay_runs[pr].status = COMPLETED => LinksTransaction(pr)
    /\ Processed =>
           /\ pay_runs[request.pay_run].status = COMPLETED
           /\ pay_runs[request.pay_run].processed_by # None
           /\ pay_runs[request.pay_run].processed_at # None
           /\ LinksTransaction(request.pay_run)

(* A run that succeeded leaves the stored PayRun COMPLETED with the        *)
(* processor and the timestamp, and a Transaction posted for it exists.    *)
CompletedRecordsProcessor ==
    Processed =>
        /\ pay_runs[request.pay_run].status = COMPLETED
        /\ pay_runs[request.pay_run].processed_by # None
        /\ pay_runs[request.pay_run].processed_at # None
        /\ transactions[response.id].description = [kind |-> "payroll", ref |-> request.pay_run]

(* A process_pay_run call is made in this step. *)
Processing == request = NoRequest /\ request'.op = "processPayRun"

(* The employee a row names exists, is active and belongs to the pay run's *)
(* organization.                                                           *)
ValidEmployee(row, pr) ==
    \E e \in DOMAIN Employees :
        /\ e = row.employee_id
        /\ Employees[e].is_active
        /\ Employees[e].organization = pay_runs[pr].organization

ValidRows(rows, pr) == {i \in DOMAIN rows : ValidEmployee(rows[i], pr)}

RunTransactions(txns, pr) ==
    {t \in DOMAIN txns : txns[t].description = [kind |-> "payroll", ref |-> pr]}

(* C17: process_pay_run is accepted only on a DRAFT or PROCESSING pay run; *)
(* on a COMPLETED or VOIDED one it fails and leaves the PayRun, the        *)
(* payslips and the ledger unchanged, so that a pay run never has more     *)
(* than one GL Transaction.                                                *)
C17_ProcessedAtMostOnce ==
    [][/\ (Processing /\ response'.outcome = "processed")
              => pay_runs[request'.pay_run].status \in {PAYRUN_DRAFT, PROCESSING}
       /\ (Processing /\ pay_runs[request'.pay_run].status \in {COMPLETED, VOIDED})
              => /\ response'.outcome = "ValueError: status"
                 /\ UNCHANGED <<pay_runs, payslips, payslip_deductions>>
                 /\ UNCHANGED <<accounts, transactions, journal_entries>>
       /\ \A pr \in DOMAIN pay_runs' :
              Cardinality(RunTransactions(transactions', pr)) <= 1]_vars

(* A pay run that was completed, with its GL Transaction, was submitted    *)
(* again and refused.                                                      *)
C17_Witness ==
    /\ request.op = "processPayRun"
    /\ pay_runs[request.pay_run].status = COMPLETED
    /\ response.outcome = "ValueError: status"
    /\ Cardinality(RunTransactions(transactions, request.pay_run)) = 1
    /\ \E i \in DOMAIN request.employee_inputs :
           ValidEmployee(request.employee_inputs[i], request.pay_run)

(* The exceptions process_pay_run raises after its first write. *)
FailuresAfterWrite ==
    {"UnboundLocalError", "IntegrityError", "django.ValidationError", "ValueError: unbalanced"}

(* The total gross pay or the total net pay of the rows of the last       *)
(* request is zero or negative.                                            *)
NoPayToPost ==
    \E w \in {ProcessRows(request.employee_inputs, 1, request.pay_run,
                 [payslips |-> payslips, payslip_deductions |-> payslip_deductions,
                  total_run_gross_pay |-> 0, total_run_net_pay |-> 0,
                  aggregated_deductions |-> EmptyDict, processed_payslips_for_gl |-> <<>>,
                  payslip |-> None, created |-> FALSE, raised |-> ""])} :
        /\ w.raised = ""
        /\ w.processed_payslips_for_gl # <<>>
        /\ (w.total_run_gross_pay <= 0 \/ w.total_run_net_pay <= 0)

(* C18: a process_pay_run call that fails after it has started writing (a *)
(* GL line rejected because total gross or total net pay is zero or        *)
(* negative, the balance check, an error on a payslip) leaves in storage   *)
(* no Payslip, PayslipDeduction, Transaction, JournalEntry or auto-created *)
(* Account of the attempt, and the PayRun's stored status is the one it    *)
(* had before the call, never COMPLETED.                                   *)
C18_FailedRunLeavesNothing ==
    [][(Processing /\ response'.outcome \in FailuresAfterWrite)
           => /\ UNCHANGED <<payslips, payslip_deductions>>
              /\ UNCHANGED <<transactions, journal_entries, accounts>>
              /\ pay_runs'[request'.pay_run].status = pay_runs[request'.pay_run].status
              /\ pay_runs'[request'.pay_run].status # COMPLETED]_vars

(* The Wages Payable line of a run whose deduction took the whole gross    *)
(* pay was rejected after the payslip, the deduction, the accounts, the    *)
(* Transaction and the expense line had been written.                      *)
C18_Witness ==
    /\ request.op = "processPayRun"
    /\ response.outcome = "django.ValidationError"
    /\ NoPayToPost
    /\ transactions = <<>>
    /\ payslip_deductions = <<>>
    /\ pay_runs[request.pay_run].status = PAYRUN_DRAFT

(* The rows of the last request that name a valid employee all supply      *)
(* hours, and there is at least one.                                       *)
ValidRowsWithHours ==
    /\ ValidRows(request.employee_inputs, request.pay_run) # {}
    /\ \A i \in ValidRows(request.employee_inputs, request.pay_run) :
           request.employee_inputs[i].hours_worked # NoHours

(* C19: invalid reference data is skipped without aborting the run: when   *)
(* at least one row names a valid employee with hours supplied, a          *)
(* process_pay_run call on a DRAFT or PROCESSING pay run completes with    *)
(* status COMPLETED and payslips exist for exactly the valid employees     *)
(* named, whatever missing, inactive or foreign employees and missing or   *)
(* negative deductions the other rows hold.                                *)
C19_InvalidRowsSkipped ==
    (/\ request.op = "processPayRun"
     /\ ValidRowsWithHours
     /\ response.outcome # "ValueError: status")
        => /\ response.outcome = "processed"
           /\ pay_runs[request.pay_run].status = COMPLETED
           /\ {payslips[k].employee : k \in RunSlips(request.pay_run)}
                  = {request.employee_inputs[i].employee_id :
                         i \in ValidRows(request.employee_inputs, request.pay_run)}

(* calculate_gross_pay was called for an hourly employee. *)
HourlyPayAsked ==
    /\ request.op = "calculateGrossPay"
    /\ Employees[request.employee].pay_type = HOURLY

(* C20: calculate_gross_pay called for an HOURLY employee with             *)
(* hours_worked omitted raises ValueError instead of returning a pay       *)
(* amount; only hours_worked supplied as 0 yields a gross pay of 0.00.     *)
C20_HourlyNeedsHours ==
    HourlyPayAsked =>
        /\ request.hours_worked = NoHours => response.outcome = "ValueError"
        /\ (response.outcome = "returned" /\ response.value = 0) => request.hours_worked = 0

(* With hours supplied, an hourly employee's gross pay is pay_rate times   *)
(* the hours, 0.00 for 0 hours.                                            *)
HourlyPayOfSuppliedHours ==
    (HourlyPayAsked /\ request.hours_worked # NoHours)
        => /\ response.outcome = "returned"
           /\ response.value = Employees[request.employee].pay_rate * request.hours_worked

(* The rows name distinct valid employees and carry no deductions, the     *)
(* hourly ones with hours worked, and a salaried one leaves its hours out. *)
SalaryRowWithoutHours(rows, pr) ==
    /\ \A i \in DOMAIN rows :
           /\ ValidEmployee(rows[i], pr)
           /\ rows[i].manual_deductions = <<>>
           /\ Employees[rows[i].employee_id].pay_type = HOURLY => rows[i].hours_worked > 0
           /\ \A j \in DOMAIN rows : rows[j].employee_id = rows[i].employee_id => j = i
    /\ \E i \in DOMAIN rows :
           /\ Employees[rows[i].employee_id].pay_type = SALARY
           /\ rows[i].hours_worked = NoHours

(* C27: process_pay_run processes a row that omits hours_worked for a      *)
(* SALARY employee wherever it stands in the list: the run completes, the  *)
(* employee's payslip has gross_pay = pay_rate / 26 and its notes are its  *)
(* own (those it had, or empty), not those of another employee's payslip.  *)
C27_SalaryWithoutHoursProcessed ==
    [][(/\ Processing
        /\ pay_runs[request'.pay_run].status \in {PAYRUN_DRAFT, PROCESSING}
        /\ SalaryRowWithoutHours(request'.employee_inputs, request'.pay_run))
           => /\ response'.outcome = "processed"
              /\ \A i \in DOMAIN request'.employee_inputs :
                     LET row == request'.employee_inputs[i]
                         pr == request'.pay_run
                         before == PayslipOf(payslips, pr, row.employee_id)
                         after == PayslipOf(payslips', pr, row.employee_id)
                     IN row.hours_worked = NoHours
                            => /\ after # None
                               /\ payslips'[after].gross_pay
                                      = Quantize(Employees[row.employee_id].pay_rate,
                                                 num_pay_periods_in_year)
                               /\ payslips'[after].notes
                                      = IF before = None THEN "" ELSE payslips[before].notes]_vars

(* calculate_gross_pay for a SALARY employee is pay_rate / 26, with or     *)
(* without hours.                                                          *)
SalaryPayOfPeriod ==
    (request.op = "calculateGrossPay" /\ Employees[request.employee].pay_type = SALARY)
        => /\ response.outcome = "returned"
           /\ response.value = Quantize(Employees[request.employee].pay_rate,
                                        num_pay_periods_in_year)

(* The totals the loop of process_pay_run reaches on the rows, from the     *)
(* payslips of the current state.                                          *)
RunTotals(pr, employee_inputs) ==
    ProcessRows(employee_inputs, 1, pr,
        [payslips |-> payslips, payslip_deductions |-> payslip_deductions,
         total_run_gross_pay |-> 0, total_run_net_pay |-> 0,
         aggregated_deductions |-> EmptyDict, processed_payslips_for_gl |-> <<>>,
         payslip |-> None, created |-> FALSE, raised |-> ""])

(* C30: whatever the rows, the totals process_pay_run posts satisfy total  *)
(* gross pay = total net pay + total applied deductions exactly, so the    *)
(* payroll Transaction it posts is balanced and its unbalanced-transaction *)
(* failure is never raised.                                                *)
C30_PayrollPostingBalanced ==
    [][Processing =>
          LET w == RunTotals(request'.pay_run, request'.employee_inputs)
              tid == response'.id
          IN /\ w.raised = ""
                    => w.total_run_gross_pay
                           = w.total_run_net_pay
                                 + SumValues(w.aggregated_deductions,
                                             DOMAIN w.aggregated_deductions)
             /\ response'.outcome # "ValueError: unbalanced"
             /\ response'.outcome = "processed"
                    => /\ SumDebit(journal_entries', EntriesOf(journal_entries', tid))
                              = SumCredit(journal_entries', EntriesOf(journal_entries', tid))
                       /\ SumDebit(journal_entries', EntriesOf(journal_entries', tid))
                              = w.total_run_gross_pay]_vars

(* A run of two rows was posted with all three lines, the deductions of    *)
(* both rows in one credit.                                                *)
C30_Witness ==
    /\ Processed
    /\ Len(request.employee_inputs) = 2
    /\ \A i \in DOMAIN request.employee_inputs :
           /\ ValidEmployee(request.employee_inputs[i], request.pay_run)
           /\ \E d \in DOMAIN request.employee_inputs[i].manual_deductions :
                  /\ request.employee_inputs[i].manual_deductions[d].amount > 0
                  /\ request.employee_inputs[i].manual_deductions[d].deduction_type_id = 1
    /\ Cardinality(EntriesOf(journal_entries, response.id)) = 3
    /\ SumDebit(journal_entries, EntriesOf(journal_entries, response.id)) > 0

----------------------------------------------------------------------------
(* Bank reconciliation *)

(* C21: over any sequence of rule runs, manual matches, create-ledger      *)
(* requests and updates of staged transactions, a StagedBankTransaction    *)
(* whose reconciliation_status has left UNMATCHED never changes status     *)
(* again: MATCHED, RULE_APPLIED and CREATED_TRANSACTION are terminal and   *)
(* entered only from UNMATCHED.                                            *)
C21_ReconciliationStatusTerminal ==
    [][\A t \in DOMAIN staged_bank_transactions :
          staged_bank_transactions[t].reconciliation_status # RECON_UNMATCHED
              => staged_bank_transactions'[t].reconciliation_status
                     = staged_bank_transactions[t].reconciliation_status]_vars

(* The rule run, the manual match and the create-ledger request change the *)
(* status of UNMATCHED transactions only.                                  *)
ServiceStatusTerminal ==
    [][request'.op \in {"applyReconciliationRules", "match", "createLedger"}
          => \A t \in DOMAIN staged_bank_transactions :
                 staged_bank_transactions[t].reconciliation_status # RECON_UNMATCHED
                     => staged_bank_transactions'[t].reconciliation_status
                            = staged_bank_transactions[t].reconciliation_status]_vars

(* The active rules of the tenant whose conditions all pass on the staged  *)
(* transaction.                                                            *)
PassingRules(tx) ==
    {r \in DOMAIN reconciliation_rules :
        /\ reconciliation_rules[r].organization = tx.organization
        /\ reconciliation_rules[r].is_active
        /\ check_rule_conditions(tx, reconciliation_rules[r])}

NameRank(name) == IF name = "Alpha" THEN 1 ELSE 2

(* Rule a stands before rule b in the order (priority ascending, name). *)
Before(a, b) ==
    \/ reconciliation_rules[a].priority < reconciliation_rules[b].priority
    \/ /\ reconciliation_rules[a].priority = reconciliation_rules[b].priority
       /\ NameRank(reconciliation_rules[a].name) < NameRank(reconciliation_rules[b].name)

(* The transactions to which the rule run of this step applied a rule. *)
RuleAppliedNow ==
    {t \in DOMAIN staged_bank_transactions :
        /\ request'.op = "applyReconciliationRules"
        /\ staged_bank_transactions[t].reconciliation_status = RECON_UNMATCHED
        /\ staged_bank_transactions'[t].reconciliation_status = RECON_RULE_APPLIED}

(* C22: in a rule run, the rule applied to an UNMATCHED staged transaction *)
(* is the first active rule of the organization, in the order of ascending *)
(* priority and then name, whose conditions all pass: no passing rule      *)
(* stands before it in that order.                                         *)
C22_FirstMatchingRuleApplied ==
    [][\A t \in RuleAppliedNow :
          LET r == staged_bank_transactions'[t].applied_rule
          IN /\ r \in PassingRules(staged_bank_transactions[t])
             /\ \A other \in PassingRules(staged_bank_transactions[t]) : ~Before(other, r)]_vars

(* The rule applied passes and no passing rule has a lower priority        *)
(* number.                                                                 *)
LowestPriorityRuleApplied ==
    [][\A t \in RuleAppliedNow :
          LET r == staged_bank_transactions'[t].applied_rule
          IN /\ r \in PassingRules(staged_bank_transactions[t])
             /\ \A other \in PassingRules(staged_bank_transactions[t]) :
                    reconciliation_rules[r].priority
                        <= reconciliation_rules[other].priority]_vars

(* C23: the value run_reconciliation_rules_for_organization returns is the *)
(* number of staged transactions to which the run applied a rule, those    *)
(* whose reconciliation_status it changed from UNMATCHED to RULE_APPLIED,  *)
(* whatever the rules (also rules without actions or with a categorize     *)
(* action naming an unknown account).                                      *)
C23_CountIsTransactionsApplied ==
    [][request'.op = "applyReconciliationRules"
          => response'.value = Cardinality(RuleAppliedNow)]_vars

(* The value returned is the number of UNMATCHED transactions on which     *)
(* some active rule's conditions pass.                                     *)
CountIsTransactionsPassing ==
    [][request'.op = "applyReconciliationRules"
          => response'.value =
                 Cardinality({t \in DOMAIN staged_bank_transactions :
                     /\ staged_bank_transactions[t].reconciliation_status = RECON_UNMATCHED
                     /\ PassingRules(staged_bank_transactions[t]) # {}})]_vars

(* A condition is well formed when it names a field and an operator. *)
WellFormed(condition) == condition.field # Missing /\ condition.operator # Missing

(* The condition passes evaluate_condition on the named field of the       *)
(* transaction; a field the transaction does not have passes nothing.      *)
Passes(staged_tx, condition) ==
    /\ HasAttr(staged_tx, condition.field)
    /\ evaluate_condition(GetAttr(staged_tx, condition.field), condition.operator,
                          condition.value)

EveryWellFormedConditionPasses(staged_tx, conditions) ==
    \A i \in DOMAIN conditions :
        WellFormed(conditions[i]) => Passes(staged_tx, conditions[i])

Checked == request.op = "checkRuleConditions"

(* C24: check_rule_conditions returns true if and only if every well-formed *)
(* condition of the rule passes evaluate_condition on the named field of   *)
(* the transaction: a condition naming a field the transaction does not    *)
(* have fails the rule, a condition without field or operator is skipped.  *)
C24_ConditionsAndSemantics ==
    Checked =>
        (response.value
             <=> EveryWellFormedConditionPasses(staged_bank_transactions[request.pk],
                                                reconciliation_rules[request.rule].conditions))

(* C24 as amended: the same for a rule with at least one condition, while  *)
(* a rule whose condition list is empty never matches.                     *)
C24_NonEmptyConditionsAndSemantics ==
    Checked =>
        LET staged_tx == staged_bank_transactions[request.pk]
            conditions == reconciliation_rules[request.rule].conditions
        IN response.value
               <=> /\ conditions # <<>>
                   /\ EveryWellFormedConditionPasses(staged_tx, conditions)

(* A rule with a malformed condition beside a passing one matched: the      *)
(* malformed condition was skipped.                                        *)
C24_Witness ==
    /\ Checked
    /\ response.value
    /\ \E i, j \in DOMAIN reconciliation_rules[request.rule].conditions :
           /\ ~WellFormed(reconciliation_rules[request.rule].conditions[i])
           /\ WellFormed(reconciliation_rules[request.rule].conditions[j])

(* A rule without conditions was checked and did not match. *)
EmptyRuleChecked ==
    /\ Checked
    /\ reconciliation_rules[request.rule].conditions = <<>>
    /\ ~response.value

(* A condition naming a field the transaction does not have failed a rule  *)
(* whose other condition passed.                                           *)
UnknownFieldFailed ==
    /\ Checked
    /\ ~response.value
    /\ \E i, j \in DOMAIN reconciliation_rules[request.rule].conditions :
           LET c == reconciliation_rules[request.rule].conditions
               staged_tx == staged_bank_transactions[request.pk]
           IN /\ WellFormed(c[i]) /\ ~HasAttr(staged_tx, c[i].field)
              /\ WellFormed(c[j]) /\ Passes(staged_tx, c[j])

----------------------------------------------------------------------------
(* Concurrent updates of one invoice, checked under SpecConcurrentUpdate.  *)

(* The Transactions posted for the invoice. *)
PostingsOf(iid) ==
    {t \in DOMAIN transactions : transactions[t].description = [kind |-> "invoice", ref |-> iid]}

(* C25: two update requests that each move the same DRAFT invoice without  *)
(* a Transaction to SENT, their steps interleaved in any way, create at    *)
(* most one GL Transaction for the invoice.                                *)
C25_ConcurrentUpdatesPostOnce ==
    \A iid \in DOMAIN invoices : Cardinality(PostingsOf(iid)) <= 1

(* A request that reads the invoice after another request has saved it     *)
(* as SENT does not post.                                                  *)
ReadAfterSaveDoesNotPost ==
    \A caller \in Callers :
        (threads[caller].pc # "idle" /\ threads[caller].original_status # DRAFT)
            => threads[caller].pc # "post"

(* Both requests posted the invoice in full: the ledger holds two balanced *)
(* postings of one invoice with a positive total.                          *)
PostedTwice ==
    \E iid \in DOMAIN invoices :
        \E t1, t2 \in PostingsOf(iid) :
            /\ t1 # t2
            /\ invoices[iid].total_amount > 0
            /\ \A t \in {t1, t2} :
                   /\ SumDebit(journal_entries, EntriesOf(journal_entries, t))
                          = invoices[iid].total_amount
                   /\ SumCredit(journal_entries, EntriesOf(journal_entries, t))
                          = invoices[iid].total_amount

(* The call of the resolver on the accounts of the current state. *)
Resolved(args) ==
    get_or_create_default_account(accounts, args.organization, args.account_type,
        args.account_name_substring, args.default_name)

(* C26: whenever no active account of the type in the organization is      *)
(* named default_name or contains the substring, the resolver creates and  *)
(* returns an active account named default_name without raising, also when *)
(* a deactivated account of the same organization, name and type exists.   *)
C26_CreatesWhenNoneMatched ==
    \A args \in ResolverArgs :
        NoneMatched(args) =>
            LET call == Resolved(args)
            IN /\ ~call.raised
               /\ call.account \in DOMAIN call.accounts \ DOMAIN accounts
               /\ call.accounts[call.account].is_active
               /\ call.accounts[call.account].name = args.default_name
               /\ call.accounts[call.account].type = args.account_type
               /\ call.accounts[call.account].organization = args.organization

(* The same where no row of the organization, name and type exists at all, *)
(* active or not.                                                          *)
CreatesWhenKeyFree ==
    \A args \in ResolverArgs :
        (NoneMatched(args) /\ SameKey(accounts, args) = {}) =>
            LET call == Resolved(args)
            IN /\ ~call.raised
               /\ call.account \in DOMAIN call.accounts \ DOMAIN accounts
               /\ call.accounts[call.account].is_active
               /\ call.accounts[call.account].name = args.default_name

----------------------------------------------------------------------------
(* Reports, checked under SpecReports. *)

(* Every persisted Transaction of the organization is balanced. *)
EveryTransactionBalanced(organization) ==
    \A t \in DOMAIN transactions :
        transactions[t].organization = organization => Balanced(t)

(* Every account that carries journal entries is active. *)
EntriesOnActiveAccounts ==
    \A j \in DOMAIN journal_entries : accounts[journal_entries[j].account].is_active

(* Every transaction dated on or before as_of_date is dated within the     *)
(* calendar year of as_of_date.                                            *)
YearOf(date) == (date - 1) \div DaysPerYear

WithinYearOf(as_of_date) ==
    \A t \in DOMAIN transactions :
        transactions[t].date <= as_of_date
            => YearOf(transactions[t].date) = YearOf(as_of_date)

BalanceSheetAsked == request.op = "getBalanceSheet"

(* C29: if every persisted Transaction of the organization is balanced,    *)
(* every account carrying journal entries is active and every transaction  *)
(* dated on or before as_of_date lies within as_of_date's calendar year,   *)
(* get_balance_sheet_data reports a verification difference of exactly 0   *)
(* and assets_equals_liabilities_plus_equity = true.                       *)
C29_BalanceSheetBalances ==
    (/\ BalanceSheetAsked
     /\ EveryTransactionBalanced(UserOrganization)
     /\ EntriesOnActiveAccounts
     /\ WithinYearOf(request.as_of_date))
        => /\ response.value.verification.difference = 0
           /\ response.value.verification.assets_equals_liabilities_plus_equity
           /\ response.value.total_assets
                  = response.value.total_liabilities + response.value.total_equity

(* A balance sheet with assets and a net income of the year, drawn as of a *)
(* day later than a posting of the same year.                              *)
C29_Witness ==
    /\ BalanceSheetAsked
    /\ EveryTransactionBalanced(UserOrganization)
    /\ EntriesOnActiveAccounts
    /\ WithinYearOf(request.as_of_date)
    /\ response.value.total_assets # 0
    /\ response.value.current_year_net_income # 0
    /\ \E t \in DOMAIN transactions : transactions[t].date < request.as_of_date

====
